---------------------------- MODULE Spec2Model ----------------------------
(***************************************************************************)
(* ESP32 ATEM tally system: the bridge (ESP32_ATEM_Bridge_BLE_v3.cpp) and  *)
(* the tally light (ESP32_Tally_Light_BLE_v2.cpp).                         *)
(*                                                                         *)
(* Texts are sequences of one-character strings, so that the Arduino       *)
(* String operations (indexOf, substring, trim, toInt) are computed as the *)
(* library computes them.                                                  *)
(*                                                                         *)
(* Time: every `unsigned long lastX` stamp of the code is held as the      *)
(* elapsed time millis() - lastX in milliseconds (the only way the code    *)
(* reads a stamp), advanced by Tick in steps of TickMs and saturating      *)
(* above the largest threshold it is compared with.  `lastX = millis()`   *)
(* is `sinceX' = 0`.                                                       *)
(***************************************************************************)
EXTENDS Integers, Sequences, FiniteSets, TLC

\* ------------------------------------------------------------- bounds
\* Slots of the bridge's device table (the code has 4; the model is bounded).
MAX_TALLY_DEVICES == 2
\* Cameras of the tally table (the code has 20; the model is bounded).
MAX_CAMERAS == 2
\* Resolution of the model's clock, in milliseconds.
TickMs == 40000

\* ------------------------------------------------- program constants
HEARTBEAT_INTERVAL == 5000
STANDBY_AS_PREVIEW == TRUE
BRIDGE_ID == 1

\* Peers: the tally lights that may connect, one more than there are slots.
Peers == 1 .. (MAX_TALLY_DEVICES + 1)
Slots == 0 .. (MAX_TALLY_DEVICES - 1)
Cameras == 1 .. MAX_CAMERAS
NoPeer == "none"

\* millis() - lastX after one more tick; it stops once above limit, the largest
\* threshold the stamp is compared with.
Aged(since, limit) == IF since > limit THEN since ELSE since + TickMs

\* ------------------------------------------------ Arduino String
Digits == <<"0", "1", "2", "3", "4", "5", "6", "7", "8", "9">>
Letters == <<"a", "b", "c", "d", "e", "f">>

IsSpace(ch) == ch = " "

DigitVal(ch) == (CHOOSE i \in 1 .. 10 : Digits[i] = ch) - 1

IsDigit(ch) == \E i \in 1 .. 10 : Digits[i] = ch

\* String::indexOf(ch, fromIndex): 0-based, -1 when there is none; fromIndex is
\* unsigned, and the callers only pass values >= 0.
indexOf(s, ch, from) ==
    LET I == {i \in 0 .. (Len(s) - 1) : i >= from /\ s[i + 1] = ch}
    IN  IF I = {} THEN -1 ELSE CHOOSE i \in I : \A j \in I : i <= j

\* String::substring(left, right): characters left .. right-1 (0-based).
substring(s, left, right) ==
    LET l == IF left > right THEN right ELSE left
        r0 == IF left > right THEN left ELSE right
        r == IF r0 > Len(s) THEN Len(s) ELSE r0
    IN  IF l >= Len(s) THEN <<>> ELSE SubSeq(s, l + 1, r)

\* String::substring(left)
substringFrom(s, left) == substring(s, left, Len(s))

\* String::startsWith(prefix)
startsWith(s, prefix) ==
    /\ Len(s) >= Len(prefix)
    /\ SubSeq(s, 1, Len(prefix)) = prefix

\* String::trim(): leading and trailing white space removed.
trim(s) ==
    LET N == {i \in 1 .. Len(s) : ~IsSpace(s[i])}
    IN  IF N = {} THEN <<>>
        ELSE SubSeq(s, CHOOSE i \in N : \A j \in N : i <= j,
                       CHOOSE i \in N : \A j \in N : i >= j)

\* The value of the leading digits of s (atol after white space and sign).
RECURSIVE digitsValue(_, _)
digitsValue(s, acc) ==
    IF s = <<>> \/ ~IsDigit(Head(s)) THEN acc
    ELSE digitsValue(Tail(s), 10 * acc + DigitVal(Head(s)))

RECURSIVE skipSpace(_)
skipSpace(s) == IF s # <<>> /\ IsSpace(Head(s)) THEN skipSpace(Tail(s)) ELSE s

\* String::toInt()
toInt(s) ==
    LET t == skipSpace(s)
    IN  IF t # <<>> /\ Head(t) = "-" THEN 0 - digitsValue(Tail(t), 0)
        ELSE IF t # <<>> /\ Head(t) = "+" THEN digitsValue(Tail(t), 0)
        ELSE digitsValue(t, 0)

\* The conversion to uint8_t.
U8(n) == n % 256

\* String(n) for a small non-negative n.
RECURSIVE decimal(_)
decimal(n) == IF n < 10 THEN <<Digits[n + 1]>> ELSE decimal(n \div 10) \o <<Digits[(n % 10) + 1]>>

TALLY_REG == <<"T", "A", "L", "L", "Y", "_", "R", "E", "G", ":">>


\* --------------------------------------------------------- the bridge
VARIABLES
    tallyDevices,         \* the slot table: Slots -> TallyDevice
    numConnectedDevices,  \* the bridge's count of open connections
    advertising,          \* whether the bridge accepts a new connection
    atemConnected,        \* AtemSwitcher.isConnected()
    currentTallyStates,   \* the bridge's copy of the raw flags: Cameras -> 0..3
    sinceLastHeartbeat,   \* millis() - lastHeartbeat
    linkOpen,             \* the transport: Peers -> whether its connection is open
    standbyAsPreview,     \* STANDBY_AS_PREVIEW as this bridge is built
    sent,                 \* the messages the last handler sent, in order
    ev                    \* the last handler that ran, and its input

\* Where a run of onWrite stands, taken write by write, and the slot a run of
\* sendHeartbeatSignal has come to, taken slot by slot (NoPass: none runs).
VARIABLES writing, passAt

\* The tally light of examples/basic-setup, a program of its own.
VARIABLE basic

raceVars == <<writing, passAt>>

bridgeOwnVars == <<tallyDevices, numConnectedDevices, advertising, atemConnected,
                   currentTallyStates, sinceLastHeartbeat, linkOpen, standbyAsPreview,
                   sent, ev, raceVars>>

bridgeVars == <<bridgeOwnVars, basic>>

\* No run of onWrite, and no run of sendHeartbeatSignal.
NoWrite == [at |-> 0, slot |-> -1, cameraId |-> 0, deviceName |-> <<>>]

NoPass == -1

\* The example light before its setup(): every global as it is initialised.
\* The ages are millis() - lastHeartbeat and millis() - lastConnectionAttempt;
\* sinceAttemptStart is the time since connectToBridge was last entered, and
\* last, attempted and message tell what its last step was.
InitBasic ==
    [pc |-> "setup", connected |-> FALSE, link |-> "closed",
     currentState |-> "DISCONNECTED", sinceLastHeartbeat |-> 0,
     sinceLastConnectionAttempt |-> 0, sinceAttemptStart |-> 0,
     last |-> "boot", attempted |-> FALSE, message |-> <<>>]

\* A TallyDevice as initializeBLE leaves it.  `characteristic` is whether the
\* pointer is set; lastSeen is only ever printed and is left out.
EmptyDevice ==
    [deviceName |-> <<>>, cameraId |-> 0, connected |-> FALSE,
     registered |-> FALSE, characteristic |-> FALSE]

Event(op, peer, arg) == [op |-> op, peer |-> peer, arg |-> arg]

\* The names a tally light may be given (DEVICE_NAME): one without and one with
\* a ':' in it, both ending in the peer's own letter.
DeviceNames(p) == {<<Letters[p]>>, <<"T", ":", Letters[p]>>}

\* The peer a device name belongs to.
PeerOf(name) ==
    IF name # <<>> /\ \E p \in Peers : Letters[p] = name[Len(name)]
    THEN CHOOSE p \in Peers : Letters[p] = name[Len(name)]
    ELSE NoPeer

\* registerWithBridge's text: "TALLY_REG:" + String(CAMERA_ID) + ":" + String(DEVICE_NAME)
RegMessage(cameraId, deviceName) == TALLY_REG \o decimal(cameraId) \o <<":">> \o deviceName

\* The cameras the lights are set to (CAMERA_ID): the first and the last.
LightCameras == {1, MAX_CAMERAS}

\* What peer p may write to the characteristic.
RegTexts(p) == {RegMessage(c, n) : c \in LightCameras, n \in DeviceNames(p)}

\* The bridge after setup(), built with STANDBY_AS_PREVIEW as standby.
InitBridgeWith(standby) ==
    /\ tallyDevices = [i \in Slots |-> EmptyDevice]
    /\ numConnectedDevices = 0
    /\ advertising = TRUE
    /\ atemConnected \in BOOLEAN
    /\ currentTallyStates = [c \in Cameras |-> 0]
    /\ sinceLastHeartbeat = 0
    /\ linkOpen = [p \in Peers |-> FALSE]
    /\ standbyAsPreview = standby
    /\ writing = NoWrite
    /\ passAt = NoPass
    /\ basic = InitBasic
    /\ sent = <<>>
    /\ ev = Event("setup", NoPeer, <<>>)

\* The bridge as shipped.
InitBridge == InitBridgeWith(STANDBY_AS_PREVIEW)

\* A mutant of TallyStateOf: the preview bit is looked at before the program bit.
TallyStateOfPreviewFirst(states, connected, cameraId) ==
    IF cameraId < 1 \/ cameraId > MAX_CAMERAS THEN "OFF"
    ELSE IF ~connected THEN "NO_ATEM"
    ELSE IF (states[cameraId] \div 2) % 2 = 1 THEN "PREVIEW"
    ELSE IF states[cameraId] % 2 = 1 THEN "PROGRAM"
    ELSE IF standbyAsPreview /\ \E cam \in Cameras : states[cam] % 2 = 1 THEN "PREVIEW"
    ELSE "OFF"

\* A mutant of TallyStateOf: no standby rule.
TallyStateOfNoStandby(states, connected, cameraId) ==
    IF cameraId < 1 \/ cameraId > MAX_CAMERAS THEN "OFF"
    ELSE IF ~connected THEN "NO_ATEM"
    ELSE IF states[cameraId] % 2 = 1 THEN "PROGRAM"
    ELSE IF (states[cameraId] \div 2) % 2 = 1 THEN "PREVIEW"
    ELSE "OFF"

\* getCurrentTallyState(cameraId) on a given table.
TallyStateOf(states, connected, cameraId) ==
    IF cameraId < 1 \/ cameraId > MAX_CAMERAS THEN "OFF"
    ELSE IF ~connected THEN "NO_ATEM"
    ELSE IF states[cameraId] % 2 = 1 THEN "PROGRAM"
    ELSE IF (states[cameraId] \div 2) % 2 = 1 THEN "PREVIEW"
    ELSE IF standbyAsPreview /\ \E cam \in Cameras : states[cam] % 2 = 1 THEN "PREVIEW"
    ELSE "OFF"

getCurrentTallyState(cameraId) ==
    TallyStateOf(currentTallyStates, atemConnected, cameraId)

\* The message sendTallyToDevice builds (the timestamp is informational).
TallyMessage(cameraId, state) ==
    [cameraId |-> cameraId, state |-> state, bridgeId |-> BRIDGE_ID,
     bridgeStatus |-> IF atemConnected THEN 1 ELSE 0]

\* sendTallyToDevice(deviceIndex, cameraId, state) on table devs: what it sends.
sendTallyToDevice(devs, deviceIndex, cameraId, state) ==
    IF deviceIndex < 0 \/ deviceIndex >= MAX_TALLY_DEVICES THEN <<>>
    ELSE IF ~devs[deviceIndex].connected \/ ~devs[deviceIndex].characteristic THEN <<>>
    ELSE <<[slot |-> deviceIndex, msg |-> TallyMessage(cameraId, state)]>>

\* broadcastTallyData's test of a slot.
BroadcastTarget(devs, i) == devs[i].connected /\ devs[i].registered

\* broadcastTallyData(cameraId, state): the sends of its loop, slot by slot.
RECURSIVE broadcastFrom(_, _, _, _)
broadcastFrom(devs, i, cameraId, state) ==
    IF i >= MAX_TALLY_DEVICES THEN <<>>
    ELSE (IF BroadcastTarget(devs, i)
          THEN sendTallyToDevice(devs, i, cameraId, state)
          ELSE <<>>) \o broadcastFrom(devs, i + 1, cameraId, state)

\* A mutant of broadcastTallyData: the loop starts one slot late.
broadcastTallyDataFromOne(devs, cameraId, state) == broadcastFrom(devs, 1, cameraId, state)

broadcastTallyData(devs, cameraId, state) == broadcastFrom(devs, 0, cameraId, state)

\* MyServerCallbacks::onConnect, as peer p's connection opens.
onConnect(p) ==
    /\ ~linkOpen[p]
    /\ advertising
    /\ linkOpen' = [linkOpen EXCEPT ![p] = TRUE]
    /\ numConnectedDevices' = numConnectedDevices + 1
    /\ advertising' = (numConnectedDevices + 1 < MAX_TALLY_DEVICES)
    /\ sent' = <<>>
    /\ ev' = Event("onConnect", p, <<>>)
    /\ UNCHANGED <<standbyAsPreview, raceVars, basic>>
    /\ UNCHANGED <<tallyDevices, atemConnected, currentTallyStates, sinceLastHeartbeat>>

\* A mutant of markLinkDown: the slot is freed.
markLinkDownFreed(devs, i) == [devs EXCEPT ![i] = EmptyDevice]

\* onDisconnect's marking of slot i.
markLinkDown(devs, i) == [devs EXCEPT ![i].connected = FALSE]

\* The slot onDisconnect marks: the first one with connected set (-1: none).
DisconnectedSlot(devs, p) ==
    LET C == {i \in Slots : devs[i].connected}
    IN  IF C = {} THEN -1 ELSE CHOOSE i \in C : \A j \in C : i <= j

\* MyServerCallbacks::onDisconnect, as peer p's connection closes.
onDisconnect(p) ==
    /\ linkOpen[p]
    /\ linkOpen' = [linkOpen EXCEPT ![p] = FALSE]
    /\ numConnectedDevices' =
           IF numConnectedDevices > 0 THEN numConnectedDevices - 1 ELSE numConnectedDevices
    /\ LET i == DisconnectedSlot(tallyDevices, p)
       IN  tallyDevices' = IF i = -1 THEN tallyDevices ELSE markLinkDown(tallyDevices, i)
    /\ advertising' = TRUE
    /\ sent' = <<>>
    /\ ev' = Event("onDisconnect", p, <<>>)
    /\ UNCHANGED <<standbyAsPreview, raceVars, basic>>
    /\ UNCHANGED <<atemConnected, currentTallyStates, sinceLastHeartbeat>>

\* Every text the model writes to the characteristic.
\* Camera fields that are no decimal in 1..MAX_CAMERAS: 0, one camera too
\* many, a letter, a number beyond a byte, and nothing.
CameraTexts == {<<"0">>, decimal(MAX_CAMERAS + 1), <<"x">>, decimal(300), <<>>}

\* Other writes of peer p: another prefix, no second field, and each of the
\* camera fields above before a name.
MalformedTexts(p) ==
    {<<"R", "E", "G", ":", "1", ":", "T", ":", Letters[p]>>, TALLY_REG \o <<"1">>}
        \cup {TALLY_REG \o c \o <<":", "T", ":", Letters[p]>> : c \in CameraTexts}

WrittenTexts == UNION {RegTexts(p) \cup MalformedTexts(p) : p \in Peers}

\* onWrite's parse of the written value: whether it is taken as a registration,
\* and the camera and device name read from it.
ParseText(rxValue) ==
    LET message == trim(rxValue)
        firstColon == indexOf(message, ":", 10)
        secondColon == indexOf(message, ":", firstColon + 1)
    IN  IF /\ Len(rxValue) > 0
           /\ startsWith(message, TALLY_REG)
           /\ firstColon > 0
           /\ secondColon > 0
        THEN [ok |-> TRUE,
              cameraId |-> U8(toInt(substring(message, 10, firstColon))),
              deviceName |-> substringFrom(message, secondColon + 1)]
        ELSE [ok |-> FALSE, cameraId |-> 0, deviceName |-> <<>>]

\* The parse of each written text (computed once).
ParseRegistration == [t \in WrittenTexts |-> ParseText(t)]

\* A mutant of SlotMatches: a known name is not looked for.
SlotMatchesFreeOnly(devs, i, deviceName) == ~devs[i].registered

\* onWrite's test of a slot in its search.
SlotMatches(devs, i, deviceName) ==
    ~devs[i].registered \/ devs[i].deviceName = deviceName

\* A mutant of FindSlot: with no slot left, the last one is taken over.
FindSlotTakeOver(devs, deviceName) ==
    LET M == {i \in Slots : SlotMatches(devs, i, deviceName)}
    IN  IF M = {} THEN MAX_TALLY_DEVICES - 1 ELSE CHOOSE i \in M : \A j \in M : i <= j

\* The slot onWrite's loop takes: the first one that matches (-1: none).
FindSlot(devs, deviceName) ==
    LET M == {i \in Slots : SlotMatches(devs, i, deviceName)}
    IN  IF M = {} THEN -1 ELSE CHOOSE i \in M : \A j \in M : i <= j

\* The slot as onWrite fills it.
RegisteredDevice(deviceName, cameraId) ==
    [deviceName |-> deviceName, cameraId |-> cameraId, connected |-> TRUE,
     registered |-> TRUE, characteristic |-> TRUE]

\* A mutant of RegistrationSend: no send on registration.
RegistrationSendNone(devs, i, cameraId) == <<>>

\* "Send current state for this camera immediately"
RegistrationSend(devs, i, cameraId) ==
    sendTallyToDevice(devs, i, cameraId, getCurrentTallyState(cameraId))

\* MyCharacteristicCallbacks::onWrite, peer p having written rxValue.
onWrite(p, rxValue) ==
    /\ linkOpen[p]
    /\ LET r == ParseRegistration[rxValue]
           i == IF r.ok THEN FindSlot(tallyDevices, r.deviceName) ELSE -1
           devs == IF i = -1 THEN tallyDevices
                   ELSE [tallyDevices EXCEPT ![i] = RegisteredDevice(r.deviceName, r.cameraId)]
       IN  /\ tallyDevices' = devs
           /\ sent' = IF i = -1 THEN <<>> ELSE RegistrationSend(devs, i, r.cameraId)
    /\ ev' = Event("onWrite", p, rxValue)
    /\ UNCHANGED <<standbyAsPreview, raceVars, basic>>
    /\ UNCHANGED <<numConnectedDevices, advertising, atemConnected, currentTallyStates,
                   sinceLastHeartbeat, linkOpen>>

\* The switcher's flags as one poll reads them: Cameras -> 0..3 (bit 0 program,
\* bit 1 preview; a camera beyond getTallyByIndexSources() reads 0).
TallyFlags == [Cameras -> 0 .. 3]

\* The polls the registry is checked under: flags on camera 1 only.
RegistryFlags == {f \in TallyFlags : f[1] < 3 /\ \A c \in Cameras : c > 1 => f[c] = 0}

\* A mutant of checkBroadcasts: only the cameras whose flags this poll found
\* changed are broadcast.
RECURSIVE checkBroadcastsChangedOnly(_, _, _, _)
checkBroadcastsChangedOnly(devs, states, anyChanges, cam) ==
    IF cam > MAX_CAMERAS THEN <<>>
    ELSE (IF states[cam] # currentTallyStates[cam]
          THEN broadcastTallyData(devs, cam, TallyStateOf(states, atemConnected, cam))
          ELSE <<>>) \o checkBroadcastsChangedOnly(devs, states, anyChanges, cam + 1)

\* The cameras checkATEMTallyStates' second pass broadcasts, in order.
RECURSIVE checkBroadcasts(_, _, _, _)
checkBroadcasts(devs, states, anyChanges, cam) ==
    IF cam > MAX_CAMERAS THEN <<>>
    ELSE (IF (standbyAsPreview /\ anyChanges)
             \/ (anyChanges /\ (states[cam] # 0 \/ anyChanges))
          THEN broadcastTallyData(devs, cam, TallyStateOf(states, atemConnected, cam))
          ELSE <<>>) \o checkBroadcasts(devs, states, anyChanges, cam + 1)

\* handleATEM with the switcher's flags as this poll reads them.  The 100 ms
\* tally-check timer is below the clock's resolution: a check may run at any poll.
handleATEM(tallyFlags) ==
    /\ IF ~atemConnected
       THEN /\ sent' = <<>>
            /\ UNCHANGED currentTallyStates
       ELSE LET newStates == [cam \in Cameras |-> tallyFlags[cam] % 4]
                anyChanges == \E cam \in Cameras : newStates[cam] # currentTallyStates[cam]
            IN  /\ currentTallyStates' = newStates
                /\ sent' = checkBroadcasts(tallyDevices, newStates, anyChanges, 1)
    /\ ev' = Event("handleATEM", NoPeer, <<>>)
    /\ UNCHANGED <<standbyAsPreview, raceVars, basic>>
    /\ UNCHANGED <<tallyDevices, numConnectedDevices, advertising, atemConnected,
                   sinceLastHeartbeat, linkOpen>>

\* AtemSwitcher.runLoop() / connectToATEM(): the library's session with the
\* switcher comes up or goes down.
atemSession(up) ==
    /\ atemConnected # up
    /\ atemConnected' = up
    /\ sent' = <<>>
    /\ ev' = Event("atemSession", NoPeer, <<>>)
    /\ UNCHANGED <<standbyAsPreview, raceVars, basic>>
    /\ UNCHANGED <<tallyDevices, numConnectedDevices, advertising, currentTallyStates,
                   sinceLastHeartbeat, linkOpen>>

\* sendHeartbeatSignal's test of a slot.
HeartbeatTarget(devs, i) == devs[i].connected /\ devs[i].registered

HeartbeatMessage ==
    [cameraId |-> 0, state |-> IF atemConnected THEN "HEARTBEAT" ELSE "NO_ATEM",
     bridgeId |-> BRIDGE_ID, bridgeStatus |-> IF atemConnected THEN 1 ELSE 0]

RECURSIVE heartbeatFrom(_, _)
heartbeatFrom(devs, i) ==
    IF i >= MAX_TALLY_DEVICES THEN <<>>
    ELSE (IF HeartbeatTarget(devs, i)
          THEN <<[slot |-> i, msg |-> HeartbeatMessage]>>
          ELSE <<>>) \o heartbeatFrom(devs, i + 1)

\* Whether sendHeartbeatSignal goes on to its loop.
HeartbeatRuns == numConnectedDevices # 0

\* loop's heartbeat timer firing: sendHeartbeatSignal.
sendHeartbeatSignal ==
    /\ sinceLastHeartbeat > HEARTBEAT_INTERVAL
    /\ IF HeartbeatRuns
       THEN /\ sent' = heartbeatFrom(tallyDevices, 0)
            /\ sinceLastHeartbeat' = 0
       ELSE /\ sent' = <<>>
            /\ UNCHANGED sinceLastHeartbeat
    /\ ev' = Event("sendHeartbeatSignal", NoPeer, <<>>)
    /\ UNCHANGED <<standbyAsPreview, raceVars, basic>>
    /\ UNCHANGED <<tallyDevices, numConnectedDevices, advertising, atemConnected,
                   currentTallyStates, linkOpen>>

\* A mutant of WriteOrder: registered is written before characteristic.
WriteOrderRegisteredFirst ==
    <<"deviceName", "cameraId", "connected", "registered", "characteristic", "send">>

\* onWrite's writes to the slot it has found, in the order of its statements
\* (lastSeen left out), and its call of sendTallyToDevice.
WriteOrder ==
    <<"deviceName", "cameraId", "connected", "characteristic", "registered", "send">>

\* The slot after the write named field.
WriteField(dev, field, w) ==
    CASE field = "deviceName" -> [dev EXCEPT !.deviceName = w.deviceName]
      [] field = "cameraId" -> [dev EXCEPT !.cameraId = w.cameraId]
      [] field = "connected" -> [dev EXCEPT !.connected = TRUE]
      [] field = "characteristic" -> [dev EXCEPT !.characteristic = TRUE]
      [] field = "registered" -> [dev EXCEPT !.registered = TRUE]
      [] OTHER -> dev

\* MyCharacteristicCallbacks::onWrite up to the slot it finds, on the
\* transport's task: the parse and the search.
onWriteBegin(p, rxValue) ==
    /\ linkOpen[p]
    /\ writing = NoWrite
    /\ LET r == ParseRegistration[rxValue]
           i == IF r.ok THEN FindSlot(tallyDevices, r.deviceName) ELSE -1
       IN  writing' = IF i = -1 THEN NoWrite
                      ELSE [at |-> 1, slot |-> i, cameraId |-> r.cameraId,
                            deviceName |-> r.deviceName]
    /\ sent' = <<>>
    /\ ev' = Event("onWrite", p, rxValue)
    /\ UNCHANGED <<tallyDevices, numConnectedDevices, advertising, atemConnected,
                   currentTallyStates, sinceLastHeartbeat, linkOpen, standbyAsPreview,
                   passAt, basic>>

\* The next statement of onWrite on its slot.
onWriteStep ==
    /\ writing # NoWrite
    /\ LET field == WriteOrder[writing.at]
           i == writing.slot
       IN  /\ tallyDevices' = [tallyDevices EXCEPT ![i] = WriteField(@, field, writing)]
           /\ sent' = IF field = "send"
                      THEN RegistrationSend(tallyDevices, i, writing.cameraId)
                      ELSE <<>>
           /\ writing' = IF writing.at = Len(WriteOrder) THEN NoWrite
                         ELSE [writing EXCEPT !.at = @ + 1]
    /\ ev' = Event("onWriteStep", NoPeer, <<>>)
    /\ UNCHANGED <<numConnectedDevices, advertising, atemConnected, currentTallyStates,
                   sinceLastHeartbeat, linkOpen, standbyAsPreview, passAt, basic>>

\* sendHeartbeatSignal up to its loop, in loop() when the timer has fired.
heartbeatBegin ==
    /\ passAt = NoPass
    /\ sinceLastHeartbeat > HEARTBEAT_INTERVAL
    /\ HeartbeatRuns
    /\ passAt' = 0
    /\ sent' = <<>>
    /\ ev' = Event("sendHeartbeatSignal", NoPeer, <<>>)
    /\ UNCHANGED <<tallyDevices, numConnectedDevices, advertising, atemConnected,
                   currentTallyStates, sinceLastHeartbeat, linkOpen, standbyAsPreview,
                   writing, basic>>

\* One round of sendHeartbeatSignal's loop, and `lastHeartbeat = millis()`
\* after the last.
heartbeatStep ==
    /\ passAt # NoPass
    /\ sent' = IF HeartbeatTarget(tallyDevices, passAt)
               THEN <<[slot |-> passAt, msg |-> HeartbeatMessage]>>
               ELSE <<>>
    /\ IF passAt + 1 < MAX_TALLY_DEVICES
       THEN passAt' = passAt + 1 /\ UNCHANGED sinceLastHeartbeat
       ELSE passAt' = NoPass /\ sinceLastHeartbeat' = 0
    /\ ev' = Event("heartbeatStep", NoPeer, <<>>)
    /\ UNCHANGED <<tallyDevices, numConnectedDevices, advertising, atemConnected,
                   currentTallyStates, linkOpen, standbyAsPreview, writing, basic>>

\* The states a manual test command may name.
ManualStates == {"PROGRAM", "OFF"}

\* handleSerialCommands, command "CAM<cameraId>:<state>".
serialCam(cameraId, state) ==
    /\ cameraId >= 1 /\ cameraId <= MAX_CAMERAS
    /\ sent' = broadcastTallyData(tallyDevices, cameraId, state)
    /\ ev' = Event("serialCam", NoPeer, <<cameraId>>)
    /\ UNCHANGED <<standbyAsPreview, raceVars, basic>>
    /\ UNCHANGED <<tallyDevices, numConnectedDevices, advertising, atemConnected,
                   currentTallyStates, sinceLastHeartbeat, linkOpen>>

\* The clock advances by TickMs.
tickBridge ==
    /\ sinceLastHeartbeat' = Aged(sinceLastHeartbeat, HEARTBEAT_INTERVAL)
    /\ sent' = <<>>
    /\ ev' = Event("tick", NoPeer, <<>>)
    /\ UNCHANGED <<standbyAsPreview, raceVars, basic>>
    /\ UNCHANGED <<tallyDevices, numConnectedDevices, advertising, atemConnected,
                   currentTallyStates, linkOpen>>

\* ----------------------------------------------------- the tally light
\* One tally light (ESP32_Tally_Light_BLE_v2.cpp): peer 1 of the bridge.
VARIABLES
    currentState,                  \* ConnectionState
    connected,
    registered,
    doConnect,
    doScan,
    currentTallyState,
    bridgeHasATEM,
    sinceLastMessageReceived,      \* millis() - lastMessageReceived
    sinceLastHeartbeatReceived,    \* millis() - lastHeartbeatReceived
    sinceLastConnectionAttempt,    \* millis() - lastConnectionAttempt
    sinceLastRegistrationAttempt,  \* millis() - lastRegistrationAttempt
    reconnectAttempts,
    pc,            \* where loop() stands: connect, register, delayC, scan, handle, delayH
    clientLink,    \* pClient's connection: closed, open, closing (closed, callback due)
    regInFlight,   \* a registration is written and not yet taken by the bridge
    lightName      \* DEVICE_NAME

\* The notification in the air, if any, and the run of notifyCallback on a
\* block of bytes, if that was the light's last step.
VARIABLES air, rx

wireVars == <<air, rx>>

lightVars == <<wireVars, currentState, connected, registered, doConnect, doScan, currentTallyState,
               bridgeHasATEM, sinceLastMessageReceived, sinceLastHeartbeatReceived,
               sinceLastConnectionAttempt, sinceLastRegistrationAttempt,
               reconnectAttempts, pc, clientLink, regInFlight, lightName>>

vars == <<bridgeVars, lightVars>>

CAMERA_ID == 1
RECONNECT_INTERVAL == 15000
MAX_RECONNECT_ATTEMPTS == 5
REGISTRATION_RETRY_INTERVAL == 5000
MESSAGE_TIMEOUT == 60000
HEARTBEAT_TIMEOUT == 15000

\* The light's peer number at the bridge.
LightPeer == 1

\* No run of notifyCallback yet.
NoRx ==
    [msg |-> <<>>, timestamp |-> 0, fault |-> <<>>, value |-> <<>>, pData |-> <<>>,
     processed |-> FALSE, verified |-> FALSE]

\* The globals' initialisers and setup(), which ends within the first tick of
\* the clock: a stamp still 0 has the age of the light's uptime, 0.
InitLight(name) ==
    /\ currentState = "DISCONNECTED"
    /\ connected = FALSE
    /\ registered = FALSE
    /\ doConnect = FALSE
    /\ doScan = TRUE
    /\ currentTallyState = "OFF"
    /\ bridgeHasATEM = FALSE
    /\ sinceLastMessageReceived = 0
    /\ sinceLastHeartbeatReceived = 0
    /\ sinceLastConnectionAttempt = 0
    /\ sinceLastRegistrationAttempt = 0
    /\ reconnectAttempts = 0
    /\ pc = "connect"
    /\ clientLink = "closed"
    /\ regInFlight = FALSE
    /\ lightName = name
    /\ air = <<>>
    /\ rx = NoRx

\* What processTallyMessage reads and writes.
Reception ==
    [currentTallyState |-> currentTallyState, bridgeHasATEM |-> bridgeHasATEM,
     sinceLastMessageReceived |-> sinceLastMessageReceived,
     sinceLastHeartbeatReceived |-> sinceLastHeartbeatReceived]

\* A mutant of processTallyMessage: the bridge status is taken before the
\* message is verified.
processTallyMessageStatusFirst(r, msg, intact) ==
    LET s == [r EXCEPT !.bridgeHasATEM = (msg.bridgeStatus = 1)]
    IN  IF ~intact THEN s
        ELSE IF msg.cameraId = 0
             THEN [s EXCEPT !.sinceLastHeartbeatReceived = 0, !.sinceLastMessageReceived = 0]
             ELSE IF msg.cameraId # CAMERA_ID THEN s
             ELSE [s EXCEPT !.sinceLastMessageReceived = 0,
                            !.sinceLastHeartbeatReceived = 0,
                            !.currentTallyState = msg.state]

\* A mutant of processTallyMessage: a heartbeat's state is shown as well.
processTallyMessageAnyCamera(r, msg, intact) ==
    IF ~intact THEN r
    ELSE LET s == [r EXCEPT !.bridgeHasATEM = (msg.bridgeStatus = 1)]
         IN  IF msg.cameraId = 0
             THEN [s EXCEPT !.sinceLastHeartbeatReceived = 0, !.sinceLastMessageReceived = 0,
                            !.currentTallyState = msg.state]
             ELSE IF msg.cameraId # CAMERA_ID THEN s
             ELSE [s EXCEPT !.sinceLastMessageReceived = 0,
                            !.sinceLastHeartbeatReceived = 0,
                            !.currentTallyState = msg.state]

\* A mutant of processTallyMessage: a message for the light's camera leaves
\* lastHeartbeatReceived alone.
processTallyMessageNoRefresh(r, msg, intact) ==
    IF ~intact THEN r
    ELSE LET s == [r EXCEPT !.bridgeHasATEM = (msg.bridgeStatus = 1)]
         IN  IF msg.cameraId = 0
             THEN [s EXCEPT !.sinceLastHeartbeatReceived = 0, !.sinceLastMessageReceived = 0]
             ELSE IF msg.cameraId # CAMERA_ID THEN s
             ELSE [s EXCEPT !.sinceLastMessageReceived = 0,
                            !.currentTallyState = msg.state]

\* processTallyMessage(msg); intact is verifyMessage(msg).
processTallyMessage(r, msg, intact) ==
    IF ~intact THEN r
    ELSE LET s == [r EXCEPT !.bridgeHasATEM = (msg.bridgeStatus = 1)]
         IN  IF msg.cameraId = 0
             THEN [s EXCEPT !.sinceLastHeartbeatReceived = 0, !.sinceLastMessageReceived = 0]
             ELSE IF msg.cameraId # CAMERA_ID THEN s
             ELSE [s EXCEPT !.sinceLastMessageReceived = 0,
                            !.sinceLastHeartbeatReceived = 0,
                            !.currentTallyState = msg.state]

\* The notifications msgs processed in order.
RECURSIVE processAll(_, _, _)
processAll(r, msgs, intact) ==
    IF msgs = <<>> THEN r
    ELSE processAll(processTallyMessage(r, Head(msgs), intact), Tail(msgs), intact)

\* notifyCallback for each of msgs (each of sizeof(TallyMessage)), on the
\* transport's task: it may run wherever loop() stands.
notifyCallback(msgs, intact) ==
    /\ rx' = NoRx /\ UNCHANGED air
    /\ clientLink = "open"
    /\ msgs # <<>>
    /\ LET r == processAll(Reception, msgs, intact)
       IN  /\ currentTallyState' = r.currentTallyState
           /\ bridgeHasATEM' = r.bridgeHasATEM
           /\ sinceLastMessageReceived' = r.sinceLastMessageReceived
           /\ sinceLastHeartbeatReceived' = r.sinceLastHeartbeatReceived
    /\ UNCHANGED <<currentState, connected, registered, doConnect, doScan,
                   sinceLastConnectionAttempt, sinceLastRegistrationAttempt,
                   reconnectAttempts, pc, clientLink, regInFlight, lightName>>

\* loop(): `if (doConnect) { connectToServer() ... }` up to registerWithBridge.
\* ok is whether pClient->connect succeeds; MyClientCallback::onConnect runs
\* within it.
loopConnect(ok) ==
    /\ rx' = NoRx /\ UNCHANGED air
    /\ pc = "connect"
    /\ IF ~doConnect
       THEN /\ pc' = "scan"
            /\ UNCHANGED <<currentState, connected, doConnect, reconnectAttempts, clientLink>>
       ELSE IF ok
       THEN /\ connected' = TRUE
            /\ currentState' = "CONNECTED"
            /\ reconnectAttempts' = 0
            /\ clientLink' = "open"
            /\ pc' = "register"
            /\ UNCHANGED doConnect
       ELSE /\ currentState' = "ERROR"
            /\ doConnect' = FALSE
            /\ pc' = "scan"
            /\ UNCHANGED <<connected, reconnectAttempts, clientLink>>
    /\ UNCHANGED <<registered, doScan, currentTallyState, bridgeHasATEM,
                   sinceLastMessageReceived, sinceLastHeartbeatReceived,
                   sinceLastConnectionAttempt, sinceLastRegistrationAttempt,
                   regInFlight, lightName>>

\* registerWithBridge up to its delay(1000), called by connectToServer.
connectRegister ==
    /\ rx' = NoRx /\ UNCHANGED air
    /\ pc = "register"
    /\ IF ~connected
       THEN /\ doConnect' = FALSE
            /\ pc' = "scan"
            /\ UNCHANGED <<regInFlight, sinceLastRegistrationAttempt>>
       ELSE /\ regInFlight' = TRUE
            /\ sinceLastRegistrationAttempt' = 0
            /\ pc' = "delayC"
            /\ UNCHANGED doConnect
    /\ UNCHANGED <<currentState, connected, registered, doScan, currentTallyState,
                   bridgeHasATEM, sinceLastMessageReceived, sinceLastHeartbeatReceived,
                   sinceLastConnectionAttempt, reconnectAttempts, clientLink, lightName>>

\* registerWithBridge after its delay(1000), and the return to loop().
registerDone ==
    /\ rx' = NoRx /\ UNCHANGED air
    /\ pc \in {"delayC", "delayH"}
    /\ registered' = TRUE
    /\ currentState' = "REGISTERED"
    /\ IF pc = "delayC"
       THEN doConnect' = FALSE /\ pc' = "scan"
       ELSE pc' = "connect" /\ UNCHANGED doConnect
    /\ UNCHANGED <<connected, doScan, currentTallyState, bridgeHasATEM,
                   sinceLastMessageReceived, sinceLastHeartbeatReceived,
                   sinceLastConnectionAttempt, sinceLastRegistrationAttempt,
                   reconnectAttempts, clientLink, regInFlight, lightName>>

\* A mutant of ScanEndState: a scan that finds nothing ends in DISCONNECTED.
ScanEndStateDisconnected(found) == IF found THEN "CONNECTING" ELSE "DISCONNECTED"

\* The connection state a scan leaves: startBLEScan sets SCANNING, and
\* onResult sets CONNECTING when it sees the bridge.
ScanEndState(found) == IF found THEN "CONNECTING" ELSE "SCANNING"

\* loop(): `if (doScan) { startBLEScan(); doScan = false; }`.  found is whether
\* the scan reports the bridge (MyAdvertisedDeviceCallbacks::onResult).
loopScan(found) ==
    /\ rx' = NoRx /\ UNCHANGED air
    /\ pc = "scan"
    /\ IF ~doScan
       THEN UNCHANGED <<currentState, doConnect, doScan>>
       ELSE /\ currentState' = ScanEndState(found)
            /\ doConnect' = (found \/ doConnect)
            /\ doScan' = FALSE
    /\ pc' = "handle"
    /\ UNCHANGED <<connected, registered, currentTallyState, bridgeHasATEM,
                   sinceLastMessageReceived, sinceLastHeartbeatReceived,
                   sinceLastConnectionAttempt, sinceLastRegistrationAttempt,
                   reconnectAttempts, clientLink, regInFlight, lightName>>

\* A mutant of BelowCap: one attempt more.
BelowCapInclusive(attempts) == attempts <= MAX_RECONNECT_ATTEMPTS

\* handleConnection's test `reconnectAttempts < MAX_RECONNECT_ATTEMPTS`.
BelowCap(attempts) == attempts < MAX_RECONNECT_ATTEMPTS

\* A mutant of CooledDown: the attempts are never taken up again.
CooledDownNever(since) == FALSE

\* A mutant of CooledDown: one interval is enough.
CooledDownAtInterval(since) == since > RECONNECT_INTERVAL

\* handleConnection's test at the cap of attempts,
\* `currentTime - lastConnectionAttempt > RECONNECT_INTERVAL * 3`.
CooledDown(since) == since > RECONNECT_INTERVAL * 3

\* A mutant of MessageTimedOut: the heartbeat's timeout.
MessageTimedOutAsHeartbeat(since) == since > HEARTBEAT_TIMEOUT

\* handleConnection's test `currentTime - lastMessageReceived > MESSAGE_TIMEOUT`.
MessageTimedOut(since) == since > MESSAGE_TIMEOUT

\* handleConnection (updateTallyLED, which follows it in loop(), drives the
\* LED only).
handleConnection ==
    /\ rx' = NoRx
    /\ air' = IF connected /\ MessageTimedOut(sinceLastMessageReceived) THEN <<>> ELSE air
    /\ pc = "handle"
    /\ IF connected /\ MessageTimedOut(sinceLastMessageReceived)
       THEN \* pClient->disconnect(); return
            /\ clientLink' = IF clientLink = "open" THEN "closing" ELSE clientLink
            /\ pc' = "connect"
            /\ UNCHANGED <<doScan, reconnectAttempts, sinceLastConnectionAttempt,
                           regInFlight, sinceLastRegistrationAttempt>>
       ELSE /\ IF ~connected /\ ~doConnect /\ ~doScan
                  /\ sinceLastConnectionAttempt > RECONNECT_INTERVAL
               THEN IF BelowCap(reconnectAttempts)
                    THEN /\ doScan' = TRUE
                         /\ reconnectAttempts' = reconnectAttempts + 1
                         /\ sinceLastConnectionAttempt' = 0
                    ELSE /\ reconnectAttempts' =
                                IF CooledDown(sinceLastConnectionAttempt)
                                THEN 0 ELSE reconnectAttempts
                         /\ UNCHANGED <<doScan, sinceLastConnectionAttempt>>
               ELSE UNCHANGED <<doScan, reconnectAttempts, sinceLastConnectionAttempt>>
            /\ IF connected /\ ~registered
                  /\ sinceLastRegistrationAttempt > REGISTRATION_RETRY_INTERVAL
               THEN \* registerWithBridge up to its delay(1000)
                    /\ regInFlight' = TRUE
                    /\ sinceLastRegistrationAttempt' = 0
                    /\ pc' = "delayH"
               ELSE /\ pc' = "connect"
                    /\ UNCHANGED <<regInFlight, sinceLastRegistrationAttempt>>
            /\ UNCHANGED clientLink
    /\ UNCHANGED <<currentState, connected, registered, doConnect, currentTallyState,
                   bridgeHasATEM, sinceLastMessageReceived, sinceLastHeartbeatReceived,
                   lightName>>

\* A mutant of clientOnDisconnect: no scan is asked for.
clientOnDisconnectNoScan ==
    /\ rx' = NoRx /\ UNCHANGED air
    /\ clientLink = "closing"
    /\ clientLink' = "closed"
    /\ connected' = FALSE
    /\ registered' = FALSE
    /\ currentState' = "DISCONNECTED"
    /\ sinceLastConnectionAttempt' = 0
    /\ UNCHANGED <<doConnect, doScan, currentTallyState, bridgeHasATEM,
                   sinceLastMessageReceived, sinceLastHeartbeatReceived,
                   sinceLastRegistrationAttempt, reconnectAttempts, pc, regInFlight,
                   lightName>>

\* MyClientCallback::onDisconnect, on the transport's task once the connection
\* has closed.
clientOnDisconnect ==
    /\ rx' = NoRx /\ UNCHANGED air
    /\ clientLink = "closing"
    /\ clientLink' = "closed"
    /\ connected' = FALSE
    /\ registered' = FALSE
    /\ currentState' = "DISCONNECTED"
    /\ doScan' = TRUE
    /\ sinceLastConnectionAttempt' = 0
    /\ UNCHANGED <<doConnect, currentTallyState, bridgeHasATEM, sinceLastMessageReceived,
                   sinceLastHeartbeatReceived, sinceLastRegistrationAttempt,
                   reconnectAttempts, pc, regInFlight, lightName>>

\* The connection is lost (range, power, the bridge restarting).
linkLoss ==
    /\ rx' = NoRx
    /\ air' = <<>>
    /\ clientLink = "open"
    /\ clientLink' = "closing"
    /\ UNCHANGED <<currentState, connected, registered, doConnect, doScan,
                   currentTallyState, bridgeHasATEM, sinceLastMessageReceived,
                   sinceLastHeartbeatReceived, sinceLastConnectionAttempt,
                   sinceLastRegistrationAttempt, reconnectAttempts, pc, regInFlight,
                   lightName>>

\* The written registration leaves the air: the bridge takes it (or it is lost
\* with the connection), and the light is notified of msgs, what the bridge's
\* handler sends it.
writeTaken(msgs) ==
    /\ rx' = NoRx /\ UNCHANGED air
    /\ regInFlight
    /\ regInFlight' = FALSE
    /\ LET r == processAll(Reception, IF clientLink = "open" THEN msgs ELSE <<>>, TRUE)
       IN  /\ currentTallyState' = r.currentTallyState
           /\ bridgeHasATEM' = r.bridgeHasATEM
           /\ sinceLastMessageReceived' = r.sinceLastMessageReceived
           /\ sinceLastHeartbeatReceived' = r.sinceLastHeartbeatReceived
    /\ UNCHANGED <<currentState, connected, registered, doConnect, doScan,
                   sinceLastConnectionAttempt, sinceLastRegistrationAttempt,
                   reconnectAttempts, pc, clientLink, lightName>>

\* handleSerialCommands, command CONNECT, at the end of a pass of loop().
serialConnect ==
    /\ rx' = NoRx /\ UNCHANGED air
    /\ pc = "connect"
    /\ IF ~connected
       THEN doScan' = TRUE /\ reconnectAttempts' = 0
       ELSE UNCHANGED <<doScan, reconnectAttempts>>
    /\ UNCHANGED <<currentState, connected, registered, doConnect, currentTallyState,
                   bridgeHasATEM, sinceLastMessageReceived, sinceLastHeartbeatReceived,
                   sinceLastConnectionAttempt, sinceLastRegistrationAttempt, pc,
                   clientLink, regInFlight, lightName>>

\* The clock advances by TickMs.
tickLight ==
    /\ rx' = NoRx /\ UNCHANGED air
    /\ sinceLastMessageReceived' = Aged(sinceLastMessageReceived, MESSAGE_TIMEOUT)
    /\ sinceLastHeartbeatReceived' =
           Aged(sinceLastHeartbeatReceived, HEARTBEAT_TIMEOUT)
    /\ sinceLastConnectionAttempt' =
           Aged(sinceLastConnectionAttempt, RECONNECT_INTERVAL * 3)
    /\ sinceLastRegistrationAttempt' =
           Aged(sinceLastRegistrationAttempt, REGISTRATION_RETRY_INTERVAL)
    /\ UNCHANGED <<currentState, connected, registered, doConnect, doScan,
                   currentTallyState, bridgeHasATEM, reconnectAttempts, pc, clientLink,
                   regInFlight, lightName>>

\* ------------------------------------------------- the message on the wire
\* struct TallyMessage, packed: sizeof(state), sizeof(timestamp), and the
\* offset of each field.
STATE_SIZE == 12
TIMESTAMP_SIZE == 4
OffsetCameraId == 0
OffsetState == OffsetCameraId + 1
OffsetTimestamp == OffsetState + STATE_SIZE
OffsetBridgeId == OffsetTimestamp + TIMESTAMP_SIZE
OffsetBridgeStatus == OffsetBridgeId + 1
OffsetChecksum == OffsetBridgeStatus + 1
SizeofTallyMessage == OffsetChecksum + 1

\* The byte of block at a C offset.
At(block, offset) == block[offset + 1]

\* a ^ b on bytes.
RECURSIVE Xor8(_, _)
Xor8(a, b) ==
    IF a = 0 THEN b
    ELSE IF b = 0 THEN a
    ELSE ((a + b) % 2) + 2 * Xor8(a \div 2, b \div 2)

\* The bytes of bs folded with ^, from checksum.
RECURSIVE XorFold(_, _)
XorFold(checksum, bs) ==
    IF bs = <<>> THEN checksum ELSE XorFold(Xor8(checksum, Head(bs)), Tail(bs))

\* The character codes of the state texts.
Uppercase ==
    <<"A", "B", "C", "D", "E", "F", "G", "H", "I", "J", "K", "L", "M",
      "N", "O", "P", "Q", "R", "S", "T", "U", "V", "W", "X", "Y", "Z">>

AsciiCode(ch) ==
    IF ch = "_" THEN 95 ELSE 64 + (CHOOSE i \in 1 .. Len(Uppercase) : Uppercase[i] = ch)

\* The state texts: the bridge's own, and texts of eleven and of twelve
\* characters as the serial command CAM<n>:<state> passes them on, the latter
\* with what strncpy leaves of it.
StateSpelling ==
    [OFF |-> <<"O", "F", "F">>,
     PROGRAM |-> <<"P", "R", "O", "G", "R", "A", "M">>,
     PREVIEW |-> <<"P", "R", "E", "V", "I", "E", "W">>,
     NO_ATEM |-> <<"N", "O", "_", "A", "T", "E", "M">>,
     HEARTBEAT |-> <<"H", "E", "A", "R", "T", "B", "E", "A", "T">>,
     PGM_PREVIEW |-> <<"P", "G", "M", "_", "P", "R", "E", "V", "I", "E", "W">>,
     PROGRAM_HOLD |-> <<"P", "R", "O", "G", "R", "A", "M", "_", "H", "O", "L", "D">>,
     PROGRAM_HOL |-> <<"P", "R", "O", "G", "R", "A", "M", "_", "H", "O", "L">>]

StateBytes ==
    [name \in DOMAIN StateSpelling |->
        [i \in 1 .. Len(StateSpelling[name]) |-> AsciiCode(StateSpelling[name][i])]]

\* A text of the light that is none of the state texts.
OtherText == "(other)"

\* String(msg->state) as a state text.
StateNameOf(bytes) ==
    IF \E name \in DOMAIN StateBytes : StateBytes[name] = bytes
    THEN CHOOSE name \in DOMAIN StateBytes : StateBytes[name] = bytes
    ELSE OtherText

\* A mutant of strncpyState: one character less is copied.
strncpyStateShort(text) ==
    [i \in 1 .. STATE_SIZE |-> IF i <= Len(text) /\ i <= STATE_SIZE - 2 THEN text[i] ELSE 0]

\* strncpy(msg.state, state, sizeof(msg.state) - 1); msg.state[sizeof(msg.state) - 1] = '\0'.
strncpyState(text) ==
    [i \in 1 .. STATE_SIZE |-> IF i <= Len(text) /\ i <= STATE_SIZE - 1 THEN text[i] ELSE 0]

\* A uint32_t in memory, least significant byte first, and back.
LittleEndian(n) == [i \in 1 .. TIMESTAMP_SIZE |-> (n \div (256 ^ (i - 1))) % 256]

RECURSIVE FromLittleEndian(_)
FromLittleEndian(bs) ==
    IF bs = <<>> THEN 0 ELSE Head(bs) + 256 * FromLittleEndian(Tail(bs))

\* The state field holds a terminator.
Terminated(block) == \E i \in 0 .. STATE_SIZE - 1 : At(block, OffsetState + i) = 0

\* strlen(msg->state): the bytes from the field's first to the first zero
\* byte of the block.
strlenState(block) ==
    LET zeros == {i \in OffsetState .. Len(block) - 1 : At(block, i) = 0}
    IN  IF zeros = {} THEN Len(block) - OffsetState
        ELSE (CHOOSE i \in zeros : \A j \in zeros : i <= j) - OffsetState

\* The characters of msg->state.
StateChars(block) ==
    IF Terminated(block)
    THEN SubSeq(block, OffsetState + 1, OffsetState + strlenState(block))
    ELSE SubSeq(block, OffsetState + 1, OffsetState + STATE_SIZE)

\* A mutant of calculateChecksum: the state's characters are left out.
calculateChecksumNoState(block) ==
    XorFold(0, <<At(block, OffsetCameraId), At(block, OffsetBridgeId),
                 At(block, OffsetBridgeStatus)>>)

\* calculateChecksum(msg), the same code in bridge and light.
calculateChecksum(block) ==
    XorFold(0, <<At(block, OffsetCameraId), At(block, OffsetBridgeId),
                 At(block, OffsetBridgeStatus)>>
               \o SubSeq(block, OffsetState + 1, OffsetState + strlenState(block)))

\* A mutant of EncodeMessage: the state field is one byte short.
EncodeMessageShortState(msg, timestamp) ==
    LET body == <<msg.cameraId>>
                \o SubSeq(strncpyState(StateBytes[msg.state]), 2, STATE_SIZE)
                \o LittleEndian(timestamp) \o <<msg.bridgeId, msg.bridgeStatus>>
    IN  body \o <<calculateChecksum(<<msg.cameraId>> \o strncpyState(StateBytes[msg.state])
                                     \o LittleEndian(timestamp)
                                     \o <<msg.bridgeId, msg.bridgeStatus, 0>>)>>

\* sendTallyToDevice and sendHeartbeatSignal: the bytes of msg, filled at
\* millis() = timestamp, as handed to setValue.
EncodeMessage(msg, timestamp) ==
    LET body == <<msg.cameraId>> \o strncpyState(StateBytes[msg.state])
                \o LittleEndian(timestamp) \o <<msg.bridgeId, msg.bridgeStatus>>
    IN  body \o <<calculateChecksum(body \o <<0>>)>>

\* msg->timestamp, which the light reads for its debug print only.
TimestampOf(block) ==
    FromLittleEndian(SubSeq(block, OffsetTimestamp + 1, OffsetTimestamp + TIMESTAMP_SIZE))

\* (TallyMessage*)pData: the fields processTallyMessage acts on.
DecodeMessage(block) ==
    [cameraId |-> At(block, OffsetCameraId),
     state |-> StateNameOf(StateChars(block)),
     bridgeId |-> At(block, OffsetBridgeId),
     bridgeStatus |-> At(block, OffsetBridgeStatus)]

\* verifyMessage(msg).
verifyMessage(block) ==
    At(block, OffsetChecksum) =
        calculateChecksum([block EXCEPT ![OffsetChecksum + 1] = 0])

\* What verifyMessage may return: with no terminator in the state field,
\* strlen reads past the array, and the result is not defined.
VerifyOutcomes(block) ==
    IF Terminated(block) THEN {verifyMessage(block)} ELSE BOOLEAN

\* A mutant of RightSize: a longer block passes as well.
RightSizeOrMore(length) == length >= SizeofTallyMessage

\* notifyCallback's test of length.
RightSize(length) == length = SizeofTallyMessage

\* What the air may do to a block: nothing, one bit flipped, the last byte
\* lost, a byte added.
Faults ==
    {[kind |-> k, bit |-> 0] : k \in {"none", "short", "long"}}
        \union {[kind |-> "flip", bit |-> b] : b \in 0 .. 8 * SizeofTallyMessage - 1}

FlipBit(block, bit) ==
    [block EXCEPT ![(bit \div 8) + 1] = Xor8(@, 2 ^ (bit % 8))]

Corrupted(block, fault) ==
    CASE fault.kind = "none" -> block
      [] fault.kind = "flip" -> FlipBit(block, fault.bit)
      [] fault.kind = "short" -> SubSeq(block, 1, Len(block) - 1)
      [] fault.kind = "long" -> block \o <<0>>

\* characteristic->setValue(&msg, sizeof(msg)); notify(): msg, filled at
\* millis() = timestamp, as it leaves the bridge and as the air, doing fault
\* to it, hands it to the light.
Transmission(msg, timestamp, fault) ==
    [msg |-> msg, timestamp |-> timestamp, fault |-> fault,
     value |-> EncodeMessage(msg, timestamp),
     pData |-> Corrupted(EncodeMessage(msg, timestamp), fault)]

\* One of transmissions goes into the air, one at a time: the next one once
\* the light's loop has run on after the last.
notify(transmissions) ==
    /\ clientLink = "open"
    /\ air = <<>>
    /\ rx = NoRx
    /\ \E t \in transmissions : air' = <<t>>
    /\ UNCHANGED rx
    /\ UNCHANGED <<currentState, connected, registered, doConnect, doScan,
                   currentTallyState, bridgeHasATEM, sinceLastMessageReceived,
                   sinceLastHeartbeatReceived, sinceLastConnectionAttempt,
                   sinceLastRegistrationAttempt, reconnectAttempts, pc, clientLink,
                   regInFlight, lightName>>

\* notifyCallback(pData, length) on the block in the air.
notifyCallbackData ==
    /\ clientLink = "open"
    /\ air # <<>>
    /\ air' = <<>>
    /\ LET t == Head(air)
           sized == RightSize(Len(t.pData))
       IN  \E ok \in (IF sized THEN VerifyOutcomes(t.pData) ELSE {FALSE}) :
               LET r == IF sized
                        THEN processTallyMessage(Reception, DecodeMessage(t.pData), ok)
                        ELSE Reception
               IN  /\ rx' = [msg |-> t.msg, timestamp |-> t.timestamp, fault |-> t.fault,
                             value |-> t.value, pData |-> t.pData,
                             processed |-> sized, verified |-> ok]
                   /\ currentTallyState' = r.currentTallyState
                   /\ bridgeHasATEM' = r.bridgeHasATEM
                   /\ sinceLastMessageReceived' = r.sinceLastMessageReceived
                   /\ sinceLastHeartbeatReceived' = r.sinceLastHeartbeatReceived
    /\ UNCHANGED <<currentState, connected, registered, doConnect, doScan,
                   sinceLastConnectionAttempt, sinceLastRegistrationAttempt,
                   reconnectAttempts, pc, clientLink, regInFlight, lightName>>

\* The messages a light may be notified of: a heartbeat, its camera's, another's.
LightMessages ==
    {[cameraId |-> c, state |-> s, bridgeId |-> BRIDGE_ID, bridgeStatus |-> b] :
        c \in {0, CAMERA_ID, CAMERA_ID + 1}, s \in {"PROGRAM", "OFF"}, b \in {0, 1}}

\* The bridge and the light as they start, the light under its shipped kind of
\* name.
InitBoth == InitBridge /\ InitLight(<<Letters[LightPeer]>>)

\* The light alone, the bridge and the air being anything.
NextLight ==
    \/ \E ok \in BOOLEAN : loopConnect(ok) /\ UNCHANGED bridgeVars
    \/ connectRegister /\ UNCHANGED bridgeVars
    \/ registerDone /\ UNCHANGED bridgeVars
    \/ \E found \in BOOLEAN : loopScan(found) /\ UNCHANGED bridgeVars
    \/ handleConnection /\ UNCHANGED bridgeVars
    \/ clientOnDisconnect /\ UNCHANGED bridgeVars
    \/ linkLoss /\ UNCHANGED bridgeVars
    \/ writeTaken(<<>>) /\ UNCHANGED bridgeVars
    \/ \E m \in LightMessages : \E intact \in BOOLEAN :
           notifyCallback(<<m>>, intact) /\ UNCHANGED bridgeVars
    \/ tickLight /\ UNCHANGED bridgeVars

SpecLight == InitBoth /\ [][NextLight]_vars

\* The light with its operator at the serial console.
NextCommands ==
    \/ NextLight
    \/ serialConnect /\ UNCHANGED bridgeVars

SpecCommands == InitBoth /\ [][NextCommands]_vars

\* The light and a bridge that never answers: no notification arrives.
NextSilent ==
    \/ \E ok \in BOOLEAN : loopConnect(ok) /\ UNCHANGED bridgeVars
    \/ connectRegister /\ UNCHANGED bridgeVars
    \/ registerDone /\ UNCHANGED bridgeVars
    \/ \E found \in BOOLEAN : loopScan(found) /\ UNCHANGED bridgeVars
    \/ handleConnection /\ UNCHANGED bridgeVars
    \/ clientOnDisconnect /\ UNCHANGED bridgeVars
    \/ linkLoss /\ UNCHANGED bridgeVars
    \/ writeTaken(<<>>) /\ UNCHANGED bridgeVars
    \/ tickLight /\ UNCHANGED bridgeVars

SpecSilent == InitBoth /\ [][NextSilent]_vars

\* One step of loop(), wherever it stands.
LoopStep ==
    \/ \E ok \in BOOLEAN : loopConnect(ok) /\ UNCHANGED bridgeVars
    \/ connectRegister /\ UNCHANGED bridgeVars
    \/ registerDone /\ UNCHANGED bridgeVars
    \/ \E found \in BOOLEAN : loopScan(found) /\ UNCHANGED bridgeVars
    \/ handleConnection /\ UNCHANGED bridgeVars

\* The light as scheduled: loop() is called again and again and each of its
\* calls returns, millis() advances, and the transport delivers onDisconnect
\* for a connection that has closed.  Nothing is assumed of scans, connection
\* attempts and messages.
SpecLightFair ==
    /\ SpecLight
    /\ WF_vars(LoopStep)
    /\ WF_vars(tickLight /\ UNCHANGED bridgeVars)
    /\ WF_vars(clientOnDisconnect /\ UNCHANGED bridgeVars)

\* The messages and the clock readings sent over the wire.
WireStates == {"OFF", "PGM_PREVIEW", "PROGRAM_HOLD"}

WireMessages ==
    {[cameraId |-> c, state |-> s, bridgeId |-> BRIDGE_ID, bridgeStatus |-> b] :
        c \in {0, CAMERA_ID}, s \in WireStates, b \in {0, 1}}

Timestamps == {TickMs}

Transmissions ==
    {Transmission(m, ts, fault) : m \in WireMessages, ts \in Timestamps, fault \in Faults}

\* The light connects and registers, and is sent every message over an air
\* with every fault.
NextWire ==
    \/ loopScan(TRUE) /\ UNCHANGED bridgeVars
    \/ loopConnect(TRUE) /\ UNCHANGED bridgeVars
    \/ connectRegister /\ UNCHANGED bridgeVars
    \/ registerDone /\ UNCHANGED bridgeVars
    \/ handleConnection /\ UNCHANGED bridgeVars
    \/ writeTaken(<<>>) /\ UNCHANGED bridgeVars
    \/ notify(Transmissions) /\ UNCHANGED bridgeVars
    \/ notifyCallbackData /\ UNCHANGED bridgeVars

SpecWire == InitBoth /\ [][NextWire]_vars

\* The light with its clock, its reconnection and the air: a heartbeat, a
\* message for its camera and one for another, whole, a byte short, a byte
\* long, and with a bit flipped in the first byte of a field.
ReceptionMessages ==
    {[cameraId |-> 0, state |-> "HEARTBEAT", bridgeId |-> BRIDGE_ID, bridgeStatus |-> 1],
     [cameraId |-> CAMERA_ID, state |-> "PROGRAM", bridgeId |-> BRIDGE_ID, bridgeStatus |-> 1],
     [cameraId |-> CAMERA_ID + 1, state |-> "PROGRAM", bridgeId |-> BRIDGE_ID,
      bridgeStatus |-> 1]}

ReceptionFlips ==
    {8 * o : o \in {OffsetCameraId, OffsetState, OffsetTimestamp, OffsetBridgeStatus,
                    OffsetChecksum}}

ReceptionFaults == {f \in Faults : f.kind = "flip" => f.bit \in ReceptionFlips}

ReceptionTransmissions ==
    {Transmission(m, ts, fault) :
        m \in ReceptionMessages, ts \in Timestamps, fault \in ReceptionFaults}

NextReception ==
    \/ \E ok \in BOOLEAN : loopConnect(ok) /\ UNCHANGED bridgeVars
    \/ connectRegister /\ UNCHANGED bridgeVars
    \/ registerDone /\ UNCHANGED bridgeVars
    \/ \E found \in BOOLEAN : loopScan(found) /\ UNCHANGED bridgeVars
    \/ handleConnection /\ UNCHANGED bridgeVars
    \/ clientOnDisconnect /\ UNCHANGED bridgeVars
    \/ linkLoss /\ UNCHANGED bridgeVars
    \/ writeTaken(<<>>) /\ UNCHANGED bridgeVars
    \/ notify(ReceptionTransmissions) /\ UNCHANGED bridgeVars
    \/ notifyCallbackData /\ UNCHANGED bridgeVars
    \/ tickLight /\ UNCHANGED bridgeVars

SpecReception == InitBoth /\ [][NextReception]_vars

\* The bridge with its routing: the lights that fit the table, each with a
\* name that registers, and the switcher.
RoutingPeers == 1 .. MAX_TALLY_DEVICES

RoutingTexts(p) == {RegMessage(c, <<"T", ":", Letters[p]>>) : c \in LightCameras}

NextBridge ==
    \/ \E p \in RoutingPeers : onConnect(p) /\ UNCHANGED lightVars
    \/ \E p \in RoutingPeers : onDisconnect(p) /\ UNCHANGED lightVars
    \/ \E p \in RoutingPeers : \E t \in RoutingTexts(p) : onWrite(p, t) /\ UNCHANGED lightVars
    \/ \E f \in RegistryFlags : handleATEM(f) /\ UNCHANGED lightVars
    \/ \E up \in BOOLEAN : atemSession(up) /\ UNCHANGED lightVars
    \/ sendHeartbeatSignal /\ UNCHANGED lightVars
    \/ \E c \in Cameras : \E st \in ManualStates : serialCam(c, st) /\ UNCHANGED lightVars
    \/ tickBridge /\ UNCHANGED lightVars

SpecBridge == InitBoth /\ [][NextBridge]_vars

\* The registry alone: one light more than the table holds, names with and
\* without a ':', and the transport's events.
NextRegistry ==
    \/ \E p \in Peers : onConnect(p) /\ UNCHANGED lightVars
    \/ \E p \in Peers : onDisconnect(p) /\ UNCHANGED lightVars
    \/ \E p \in Peers : \E t \in RegTexts(p) : onWrite(p, t) /\ UNCHANGED lightVars

SpecRegistry == InitBoth /\ [][NextRegistry]_vars

\* The characteristic written by anyone: registrations and other texts.
NextWrites ==
    \/ \E p \in RoutingPeers : onConnect(p) /\ UNCHANGED lightVars
    \/ \E p \in RoutingPeers : onDisconnect(p) /\ UNCHANGED lightVars
    \/ \E p \in RoutingPeers : \E t \in RoutingTexts(p) \cup MalformedTexts(p) :
            onWrite(p, t) /\ UNCHANGED lightVars

SpecWrites == InitBoth /\ [][NextWrites]_vars

\* The transport's task and loop() side by side: onWrite statement by
\* statement, sendHeartbeatSignal slot by slot.  The transport runs one
\* callback at a time.
NextRace ==
    \/ \E p \in RoutingPeers : writing = NoWrite /\ onConnect(p) /\ UNCHANGED lightVars
    \/ \E p \in RoutingPeers : writing = NoWrite /\ onDisconnect(p) /\ UNCHANGED lightVars
    \/ \E p \in RoutingPeers : \E t \in RoutingTexts(p) :
            onWriteBegin(p, t) /\ UNCHANGED lightVars
    \/ onWriteStep /\ UNCHANGED lightVars
    \/ heartbeatBegin /\ UNCHANGED lightVars
    \/ heartbeatStep /\ UNCHANGED lightVars
    \/ tickBridge /\ UNCHANGED lightVars

SpecRace == InitBoth /\ [][NextRace]_vars

\* ------------------------------------- the tally light of examples/basic-setup
\* Resolution of the example's clock, in milliseconds.
BasicTickMs == 5000

DEVICE_ID == 1
CONNECTION_RETRY_DELAY == 5000
BASIC_HEARTBEAT_TIMEOUT == 15000

\* connectToBridge's scan, `pBLEScan->start(5, false)`, blocks for 5 seconds.
SCAN_SECONDS == 5
ScanMs == SCAN_SECONDS * 1000

\* An age after `by` more milliseconds; it stops once above limit.
Advanced(since, by, limit) == IF since > limit THEN since ELSE since + by

HEARTBEAT_PREFIX == <<"H", "E", "A", "R", "T", "B", "E", "A", "T", ":">>

\* What the example's bridge notifies: "HEARTBEAT:" and millis(), and
\* "<deviceId>:<state>".
BasicMessages ==
    {HEARTBEAT_PREFIX \o <<"5">>,
     <<"1", ":", "L", "I", "V", "E">>,
     <<"1", ":", "O", "F", "F">>,
     <<"2", ":", "L", "I", "V", "E">>}

\* A state's text as a string.
BasicStateName(chars) ==
    CASE chars = <<"L", "I", "V", "E">> -> "LIVE"
      [] chars = <<"O", "F", "F">> -> "OFF"
      [] OTHER -> "(other)"

\* A mutant of BasicTimedOut: the heartbeat is never missed.
BasicTimedOutNever(since) == FALSE

\* loop's test `currentTime - lastHeartbeat > HEARTBEAT_TIMEOUT`.
BasicTimedOut(since) == since > BASIC_HEARTBEAT_TIMEOUT

\* loop's test `currentTime - lastConnectionAttempt >= CONNECTION_RETRY_DELAY`.
RetryDue(since) == since >= CONNECTION_RETRY_DELAY

\* connectToBridge: the scan, which takes its time, and the connection when
\* the bridge is found and all of it succeeds (ok).
connectToBridge(b, ok) ==
    LET after == [b EXCEPT
                    !.sinceLastHeartbeat = Advanced(@, ScanMs, BASIC_HEARTBEAT_TIMEOUT),
                    !.sinceLastConnectionAttempt =
                        Advanced(@, ScanMs, CONNECTION_RETRY_DELAY - 1),
                    !.sinceAttemptStart = ScanMs,
                    !.attempted = TRUE]
    IN  IF ok
        THEN [after EXCEPT !.connected = TRUE, !.link = "open",
                           !.sinceLastHeartbeat = 0, !.currentState = "CONNECTED"]
        ELSE after

\* setup()
basicSetup(ok) ==
    /\ basic.pc = "setup"
    /\ basic' = [connectToBridge(basic, ok) EXCEPT
                    !.pc = "loop", !.last = "setup", !.message = <<>>]
    /\ UNCHANGED <<bridgeOwnVars, lightVars>>

\* One pass of loop(); lastConnectionAttempt becomes the time the pass began.
basicLoop(ok) ==
    /\ basic.pc = "loop"
    /\ LET b == [basic EXCEPT !.last = "loop", !.attempted = FALSE, !.message = <<>>]
       IN  basic' =
               IF ~b.connected
               THEN IF RetryDue(b.sinceLastConnectionAttempt)
                    THEN [connectToBridge(b, ok) EXCEPT !.sinceLastConnectionAttempt = ScanMs]
                    ELSE b
               ELSE IF BasicTimedOut(b.sinceLastHeartbeat)
                    THEN [b EXCEPT !.connected = FALSE, !.link = "closed"]
                    ELSE b
    /\ UNCHANGED <<bridgeOwnVars, lightVars>>

\* notifyCallback
basicNotify(message) ==
    /\ basic.link = "open"
    /\ LET b == [basic EXCEPT !.last = "notify", !.attempted = FALSE,
                              !.message = message]
           colonIndex == indexOf(message, ":", 0)
       IN  basic' =
               IF startsWith(message, HEARTBEAT_PREFIX)
               THEN [b EXCEPT !.sinceLastHeartbeat = 0]
               ELSE IF colonIndex > 0
                       /\ toInt(substring(message, 0, colonIndex)) = DEVICE_ID
                    THEN [b EXCEPT !.currentState =
                              BasicStateName(substringFrom(message, colonIndex + 1))]
                    ELSE b
    /\ UNCHANGED <<bridgeOwnVars, lightVars>>

\* The connection is lost without a word.
basicLinkLoss ==
    /\ basic.link = "open"
    /\ basic' = [basic EXCEPT !.link = "closed", !.last = "loss", !.attempted = FALSE,
                              !.message = <<>>]
    /\ UNCHANGED <<bridgeOwnVars, lightVars>>

\* The example's clock advances by BasicTickMs.
basicTick ==
    /\ basic.pc = "loop"
    /\ basic' = [basic EXCEPT
                    !.sinceLastHeartbeat =
                        Advanced(@, BasicTickMs, BASIC_HEARTBEAT_TIMEOUT),
                    !.sinceLastConnectionAttempt =
                        Advanced(@, BasicTickMs, CONNECTION_RETRY_DELAY - 1),
                    !.sinceAttemptStart =
                        Advanced(@, BasicTickMs, CONNECTION_RETRY_DELAY - 1),
                    !.last = "tick", !.attempted = FALSE, !.message = <<>>]
    /\ UNCHANGED <<bridgeOwnVars, lightVars>>

NextBasic ==
    \/ \E ok \in BOOLEAN : basicSetup(ok)
    \/ \E ok \in BOOLEAN : basicLoop(ok)
    \/ \E message \in BasicMessages : basicNotify(message)
    \/ basicLinkLoss
    \/ basicTick

SpecBasic == InitBoth /\ [][NextBasic]_vars

\* The tally engine: one light that registers, the switcher with every flag
\* table, and the bridge built with and without STANDBY_AS_PREVIEW.
EngineTexts == {RegMessage(CAMERA_ID, <<"T", ":", Letters[LightPeer]>>)}

NextEngine ==
    \/ onConnect(LightPeer) /\ UNCHANGED lightVars
    \/ onDisconnect(LightPeer) /\ UNCHANGED lightVars
    \/ \E t \in EngineTexts : onWrite(LightPeer, t) /\ UNCHANGED lightVars
    \/ \E f \in TallyFlags : handleATEM(f) /\ UNCHANGED lightVars
    \/ \E up \in BOOLEAN : atemSession(up) /\ UNCHANGED lightVars

InitEngine ==
    /\ \E standby \in BOOLEAN : InitBridgeWith(standby)
    /\ InitLight(<<Letters[LightPeer]>>)

SpecEngine == InitEngine /\ [][NextEngine]_vars

\* The light and the bridge together.
\* The notifications of out (a handler's sends) that go to the light: those to
\* the slot that holds its name.
RECURSIVE NotifiedOf(_, _)
NotifiedOf(devs, out) ==
    IF out = <<>> THEN <<>>
    ELSE (IF PeerOf(devs[Head(out).slot].deviceName) = LightPeer
          THEN <<Head(out).msg>>
          ELSE <<>>) \o NotifiedOf(devs, Tail(out))

\* The polls the system is checked under: camera 1 off or on program.
SystemFlags == {f \in RegistryFlags : f[1] < 2}

\* A step of the light alone, and one of the bridge alone.
bridgeIdle ==
    /\ sent' = <<>>
    /\ ev' = Event("light", LightPeer, <<>>)
    /\ UNCHANGED <<standbyAsPreview, raceVars, basic>>
    /\ UNCHANGED <<tallyDevices, numConnectedDevices, advertising, atemConnected,
                   currentTallyStates, sinceLastHeartbeat, linkOpen>>

lightIdle == UNCHANGED lightVars

\* The light is notified of what the bridge's handler has just sent it.
bridgeToLight ==
    LET msgs == NotifiedOf(tallyDevices', sent')
    IN  IF msgs # <<>> /\ clientLink = "open" /\ linkOpen[LightPeer]
        THEN notifyCallback(msgs, TRUE)
        ELSE lightIdle

\* Whether the bridge takes a connection from the light.
BridgeAccepts == advertising /\ ~linkOpen[LightPeer]

\* The radio is good: a scan finds an advertising bridge, and a connect fails
\* only if the bridge does not take it.
NextSystem ==
    \/ doConnect /\ BridgeAccepts /\ loopConnect(TRUE) /\ onConnect(LightPeer)
    \/ (doConnect => ~BridgeAccepts) /\ loopConnect(FALSE) /\ bridgeIdle
    \/ connectRegister /\ bridgeIdle
    \/ registerDone /\ bridgeIdle
    \/ loopScan(advertising) /\ bridgeIdle
    \/ handleConnection /\ bridgeIdle
    \/ clientOnDisconnect /\ bridgeIdle
    \/ linkLoss /\ bridgeIdle
    \/ /\ clientLink # "open"
       /\ onDisconnect(LightPeer)
       /\ IF regInFlight THEN writeTaken(<<>>) ELSE lightIdle
    \/ /\ linkOpen[LightPeer]
       /\ regInFlight
       /\ onWrite(LightPeer, RegMessage(CAMERA_ID, lightName))
       /\ writeTaken(NotifiedOf(tallyDevices', sent'))
    \/ \E f \in SystemFlags : handleATEM(f) /\ bridgeToLight
    \/ \E up \in BOOLEAN : atemSession(up) /\ lightIdle
    \/ sendHeartbeatSignal /\ bridgeToLight
    \/ tickBridge /\ tickLight

InitSystem == InitBridge /\ \E name \in DeviceNames(LightPeer) : InitLight(name)

SpecSystem == InitSystem /\ [][NextSystem]_vars

\* ------------------------------------------------------ the registry
\* The slots that hold a device name.
Holding(devs, deviceName) ==
    {i \in Slots : devs[i].registered /\ devs[i].deviceName = deviceName}

\* The slots broadcastTallyData and sendHeartbeatSignal are to reach.
LiveSlots == {i \in Slots : tallyDevices[i].connected /\ tallyDevices[i].registered}

\* The slots the last handler sent a message for camera c.
SentTo(c) == {sent[k].slot : k \in {n \in 1 .. Len(sent) : sent[n].msg.cameraId = c}}

\* C2: every text TALLY_REG:<cameraId>:<identity>, cameraId in 1..N, written
\* while a slot is free or holds the identity, registers a slot with that
\* cameraId whose device name is the identity, verbatim.
C2_RegistersVerbatim ==
    [][\A p \in Peers : \A c \in LightCameras : \A n \in DeviceNames(p) :
          (/\ onWrite(p, RegMessage(c, n))
           /\ \E i \in Slots : ~tallyDevices[i].registered \/ tallyDevices[i].deviceName = n)
          => \E i \in Slots : /\ tallyDevices'[i].registered
                              /\ tallyDevices'[i].cameraId = c
                              /\ tallyDevices'[i].deviceName = n]_vars

\* C3: a registration that takes a slot sends, in onWrite itself, one message
\* to that slot, with the registered camera and its current display state.
C3_ImmediateSend ==
    ev.op = "onWrite" =>
        LET r == ParseRegistration[ev.arg]
        IN  \A i \in Slots :
                (r.ok /\ i \in Holding(tallyDevices, r.deviceName)) =>
                    sent = <<[slot |-> i,
                              msg |-> [cameraId |-> r.cameraId,
                                       state |-> getCurrentTallyState(r.cameraId),
                                       bridgeId |-> BRIDGE_ID,
                                       bridgeStatus |-> IF atemConnected THEN 1 ELSE 0]]>>

C3_Witness ==
    /\ ev.op = "onWrite"
    /\ Len(sent) = 1
    /\ sent[1].msg.state = "PROGRAM"
    /\ tallyDevices[sent[1].slot].deviceName = ParseRegistration[ev.arg].deviceName

\* C5 as stated: a state-change message for camera c goes to exactly the live
\* slots assigned to camera c.
C5_OnlyAssignedCamera ==
    (ev.op = "serialCam" \/ (ev.op = "handleATEM" /\ sent # <<>>)) =>
        \A c \in Cameras :
            (ev.op = "serialCam" => c = ev.arg[1]) =>
                SentTo(c) = {i \in LiveSlots : tallyDevices[i].cameraId = c}

\* C5 as amended: a state-change message for camera c goes to exactly the
\* slots with connected and registered set, whatever camera they are assigned.
C5_AllLiveSlots ==
    (ev.op = "serialCam" \/ (ev.op = "handleATEM" /\ sent # <<>>)) =>
        \A c \in Cameras :
            (ev.op = "serialCam" => c = ev.arg[1]) => SentTo(c) = LiveSlots

C5_Witness ==
    /\ ev.op = "serialCam"
    /\ \E i \in SentTo(ev.arg[1]) : tallyDevices[i].cameraId # ev.arg[1]
    /\ \E i \in Slots : /\ tallyDevices[i].registered
                        /\ ~tallyDevices[i].connected
                        /\ i \notin SentTo(ev.arg[1])

\* C6: a slot's connected flag is set exactly while the connection of the light
\* that registered it is open.
C6_LinkUpIsTransport ==
    \A i \in Slots :
        tallyDevices[i].registered =>
            (tallyDevices[i].connected = linkOpen[PeerOf(tallyDevices[i].deviceName)])

\* C7: registering a name that holds a slot reuses that slot, with the camera
\* asked for and connected set, touches no other slot, and leaves one slot
\* holding the name.
C7_ReRegistration ==
    [][\A p \in Peers : \A t \in RegTexts(p) :
          LET r == ParseRegistration[t]
              H == Holding(tallyDevices, r.deviceName)
          IN  (onWrite(p, t) /\ r.ok /\ H # {}) =>
                  /\ Cardinality(H) = 1
                  /\ Holding(tallyDevices', r.deviceName) = H
                  /\ \A i \in H : /\ tallyDevices'[i].cameraId = r.cameraId
                                  /\ tallyDevices'[i].connected
                  /\ \A j \in Slots \ H : tallyDevices'[j] = tallyDevices[j]]_vars

\* A light re-registered with another camera into the first slot while the
\* second slot is held by another light.
C7_Witness ==
    /\ ev.op = "onWrite"
    /\ Len(sent) = 1
    /\ sent[1].slot = 0
    /\ tallyDevices[0].cameraId = MAX_CAMERAS
    /\ tallyDevices[1].registered

\* C8: with every slot registered, a registration under a name no slot holds
\* changes no slot and sends nothing.
C8_RegistryFull ==
    [][\A p \in Peers : \A t \in RegTexts(p) :
          LET r == ParseRegistration[t]
          IN  (/\ onWrite(p, t)
               /\ r.ok
               /\ \A i \in Slots : tallyDevices[i].registered
               /\ Holding(tallyDevices, r.deviceName) = {})
              => (tallyDevices' = tallyDevices /\ sent' = <<>>)]_vars

C8_Witness ==
    /\ ev.op = "onWrite"
    /\ ParseRegistration[ev.arg].ok
    /\ \A i \in Slots : tallyDevices[i].registered
    /\ Holding(tallyDevices, ParseRegistration[ev.arg].deviceName) = {}

\* C9: onDisconnect changes no slot's device name, camera or registered flag.
C9_MarkDownFrame ==
    [][(\E p \in Peers : onDisconnect(p)) =>
          \A i \in Slots : /\ tallyDevices'[i].deviceName = tallyDevices[i].deviceName
                           /\ tallyDevices'[i].cameraId = tallyDevices[i].cameraId
                           /\ tallyDevices'[i].registered = tallyDevices[i].registered]_vars

C9_Witness ==
    /\ ev.op = "onDisconnect"
    /\ \E i \in Slots : /\ tallyDevices[i].registered
                        /\ ~tallyDevices[i].connected
                        /\ tallyDevices[i].cameraId # 0

\* C10: a heartbeat round sends a message with cameraId 0 to every slot with
\* connected and registered set, and to no other slot.
C10_HeartbeatFanOut ==
    ev.op = "sendHeartbeatSignal" =>
        /\ \A k \in 1 .. Len(sent) : sent[k].msg.cameraId = 0
        /\ SentTo(0) = LiveSlots

Settled ==
    /\ currentState = "REGISTERED"
    /\ clientLink = "open"
    /\ linkOpen[LightPeer]
    /\ ~regInFlight

\* C1: convergence, in its finite form.  Once the light has registered and
\* nothing is in the air, nothing more is due to it, so what it shows then is
\* what it goes on showing while the switcher is still: currentTallyState is
\* getCurrentTallyState(CAMERA_ID).
C1_Converged == Settled => currentTallyState = getCurrentTallyState(CAMERA_ID)

\* ------------------------------------------------------ the tally engine
\* The raw flags of camera c in the bridge's table.
Live(c) == currentTallyStates[c] % 2 = 1

OnPreview(c) == (currentTallyStates[c] \div 2) % 2 = 1

\* C11: for every camera 1..MAX_CAMERAS and every table of raw flags,
\* getCurrentTallyState is NO_ATEM when the switcher is not connected, whatever
\* the flags; else PROGRAM when the program bit is set, also with the preview
\* bit; else PREVIEW when the preview bit is set.
C11_DisplayRules ==
    \A c \in Cameras :
        /\ ~atemConnected => getCurrentTallyState(c) = "NO_ATEM"
        /\ (atemConnected /\ Live(c)) => getCurrentTallyState(c) = "PROGRAM"
        /\ (atemConnected /\ ~Live(c) /\ OnPreview(c)) => getCurrentTallyState(c) = "PREVIEW"

\* C11: a poll has left a camera with both bits set, and one with the preview
\* bit only.
C11_Witness ==
    /\ ev.op = "handleATEM"
    /\ atemConnected
    /\ \E c \in Cameras : Live(c) /\ OnPreview(c) /\ getCurrentTallyState(c) = "PROGRAM"
    /\ \E c \in Cameras : ~Live(c) /\ OnPreview(c) /\ getCurrentTallyState(c) = "PREVIEW"

\* The cameras with neither bit set while exactly one camera is live.
StandbyCameras ==
    IF atemConnected /\ Cardinality({c \in Cameras : Live(c)}) = 1
    THEN {c \in Cameras : ~Live(c) /\ ~OnPreview(c)}
    ELSE {}

EngineStep == ev'.op \in {"handleATEM", "atemSession"}

\* A poll of the connected switcher.
PollStep == ev'.op = "handleATEM" /\ atemConnected

\* C13 (as stated): with a receiver registered, the bridge emits a state
\* message for camera c exactly when c's freshly derived display state differs
\* from the one before: never for a camera whose state is unchanged, always for
\* one whose state changed, the switcher's session going or coming included.
C13_EmitsExactlyOnChange ==
    [][(EngineStep /\ LiveSlots # {}) =>
          \A c \in Cameras :
              (SentTo(c)' # {}) <=> (getCurrentTallyState(c)' # getCurrentTallyState(c))]_vars

\* Some camera is live.
AnyLive == \E c \in Cameras : Live(c)

\* The messages of the last handler for camera c, by slot.
StatesSentTo(i, c) ==
    {sent[k].msg.state : k \in {n \in 1 .. Len(sent) : sent[n].slot = i /\ sent[n].msg.cameraId = c}}

\* C14: when a poll finds a change of a program bit that changes whether any
\* camera is live, every camera whose display state changed has that new
\* state, derived from the updated table, sent to every registered receiver in
\* the same poll.
C14_AllRederived ==
    [][(PollStep /\ AnyLive' # AnyLive) =>
          \A c \in Cameras :
              getCurrentTallyState(c)' # getCurrentTallyState(c) =>
                  \A i \in LiveSlots : StatesSentTo(i, c)' = {getCurrentTallyState(c)'}]_vars

\* C14: a poll has found exactly one camera live and has sent a registered
\* receiver PREVIEW for another camera with both bits clear.
C14_Witness ==
    /\ ev.op = "handleATEM"
    /\ LiveSlots # {}
    /\ \E c \in StandbyCameras : \A i \in LiveSlots : StatesSentTo(i, c) = {"PREVIEW"}

\* C15 (as stated): with the switcher's session gone every camera derives
\* NO_ATEM, and a heartbeat round sends every slot with connected and
\* registered set a message with cameraId 0, state NO_ATEM and bridgeStatus 0.
C15_NoSourceHeartbeat ==
    (ev.op = "sendHeartbeatSignal" /\ ~atemConnected) =>
        /\ \A c \in Cameras : getCurrentTallyState(c) = "NO_ATEM"
        /\ \A i \in LiveSlots :
               \E k \in 1 .. Len(sent) :
                   /\ sent[k].slot = i
                   /\ sent[k].msg.cameraId = 0
                   /\ sent[k].msg.state = "NO_ATEM"
                   /\ sent[k].msg.bridgeStatus = 0

\* C16 (as stated): a poll that finds a flag changed broadcasts, in a bridge
\* built without STANDBY_AS_PREVIEW, only the cameras whose own flags changed,
\* and in a bridge built with it, every camera.
C16_BroadcastAsymmetry ==
    [][(PollStep /\ LiveSlots # {} /\ currentTallyStates' # currentTallyStates) =>
          \A c \in Cameras :
              (SentTo(c)' # {}) <=>
                  (standbyAsPreview \/ currentTallyStates'[c] # currentTallyStates[c])]_vars

\* --------------------------------------------------- the message on the wire
\* The last step was notifyCallback on a block.
Received == rx.pData # <<>>

\* C17: a message with a state text of at most 11 bytes, encoded by the bridge
\* and handed whole to the light, passes the light's test of length, reads
\* back as the very cameraId, state, timestamp, bridgeId and bridgeStatus, and
\* passes verifyMessage.
C17_RoundTrip ==
    (Received /\ rx.fault.kind = "none"
        /\ Len(StateBytes[rx.msg.state]) <= STATE_SIZE - 1) =>
        /\ rx.processed
        /\ rx.verified
        /\ DecodeMessage(rx.pData) = rx.msg
        /\ TimestampOf(rx.pData) = rx.timestamp

\* C17: the light has taken a state text of 11 bytes for its camera from a
\* block that came whole.
C17_Witness ==
    /\ Received
    /\ rx.fault.kind = "none"
    /\ rx.msg.cameraId = CAMERA_ID
    /\ Len(StateBytes[rx.msg.state]) = STATE_SIZE - 1
    /\ currentTallyState = rx.msg.state

\* C18 (as stated): a block with any single bit of any byte flipped fails
\* verifyMessage.
C18_AnyFlipDetected ==
    (Received /\ rx.fault.kind = "flip") => ~rx.verified

\* The offset of the flipped byte, and whether the checksum covers it: the
\* cameraId, bridgeId, bridgeStatus and checksum bytes, the state's characters
\* and its terminator.
FlippedAt == rx.fault.bit \div 8

FlipCovered ==
    \/ FlippedAt \in {OffsetCameraId, OffsetBridgeId, OffsetBridgeStatus, OffsetChecksum}
    \/ FlippedAt >= OffsetState /\ FlippedAt <= OffsetState + strlenState(rx.value)

\* C18 (amended): a single flipped bit fails verifyMessage exactly when it is
\* in a byte the checksum covers; a flip in the timestamp or in the state
\* field's padding after the terminator passes.  (The terminator of an 11-byte
\* text, the field's last byte, is left out: without it strlen reads past the
\* field.)
C18_CoveredFlipDetected ==
    (Received /\ rx.fault.kind = "flip"
        /\ ~(FlippedAt = OffsetState + STATE_SIZE - 1
              /\ strlenState(rx.value) = STATE_SIZE - 1)) =>
        (FlipCovered <=> ~rx.verified)

\* C18: a flip in a character of the state text of a message for the light's
\* camera was caught, and the light did not take the state.
C18_Witness ==
    /\ Received
    /\ rx.fault.kind = "flip"
    /\ FlippedAt >= OffsetState /\ FlippedAt < OffsetState + strlenState(rx.value)
    /\ ~rx.verified
    /\ rx.msg.cameraId = CAMERA_ID
    /\ currentTallyState # rx.msg.state

\* C19 (as stated): the block the bridge sends has the state in 11 bytes from
\* offset 1, the timestamp at offset 12, bridgeId at 16, bridgeStatus at 17,
\* the checksum at 18, 19 bytes in all; and the light processes a block exactly
\* when it has 19 bytes.
C19_Layout19 ==
    Received =>
        /\ Len(rx.value) = 19
        /\ SubSeq(rx.value, 2, 12) = SubSeq(strncpyState(StateBytes[rx.msg.state]), 1, 11)
        /\ SubSeq(rx.value, 13, 16) = LittleEndian(rx.timestamp)
        /\ At(rx.value, 16) = rx.msg.bridgeId
        /\ At(rx.value, 17) = rx.msg.bridgeStatus
        /\ At(rx.value, 18) = calculateChecksum(rx.value)
        /\ rx.processed <=> (Len(rx.pData) = 19)

\* C19 (amended): the state takes 12 bytes from offset 1 (at most 11
\* characters and the terminator), the timestamp is at offset 13, bridgeId at
\* 17, bridgeStatus at 18, the checksum at 19, 20 bytes in all; and the light
\* processes a block exactly when it has 20 bytes.
C19_Layout20 ==
    Received =>
        /\ Len(rx.value) = 20
        /\ SubSeq(rx.value, 2, 13) = strncpyState(StateBytes[rx.msg.state])
        /\ At(rx.value, 12) = 0
        /\ SubSeq(rx.value, 14, 17) = LittleEndian(rx.timestamp)
        /\ At(rx.value, 17) = rx.msg.bridgeId
        /\ At(rx.value, 18) = rx.msg.bridgeStatus
        /\ At(rx.value, 19) = calculateChecksum([rx.value EXCEPT ![20] = 0])
        /\ rx.processed <=> (Len(rx.pData) = 20)

\* C19: the light has processed a whole block whose state field is full, a
\* text of 12 characters cut to 11 and the terminator.
C19_Witness ==
    /\ Received
    /\ rx.processed
    /\ rx.fault.kind = "none"
    /\ Len(StateBytes[rx.msg.state]) = STATE_SIZE
    /\ rx.msg.cameraId = CAMERA_ID
    /\ StateBytes[currentTallyState] = SubSeq(StateBytes[rx.msg.state], 1, STATE_SIZE - 1)

\* C20: notifyCallback on a block that has not the size of TallyMessage
\* changes nothing of the light: not its connection state, nor its tally
\* state, nor bridgeHasATEM, nor the ages of the last message and heartbeat.
C20_WrongLengthDropped ==
    [][(air # <<>> /\ rx'.pData # <<>> /\ Len(rx'.pData) # SizeofTallyMessage) =>
          UNCHANGED <<currentState, connected, registered, doConnect, doScan,
                      currentTallyState, bridgeHasATEM, sinceLastMessageReceived,
                      sinceLastHeartbeatReceived, sinceLastConnectionAttempt,
                      sinceLastRegistrationAttempt, reconnectAttempts, pc, clientLink>>]_vars

\* C20: a registered light whose last message is a tick old has been handed a
\* block of another size, made from a message that would have changed its
\* tally state.
C20_Witness ==
    /\ Received
    /\ Len(rx.pData) # SizeofTallyMessage
    /\ ~rx.processed
    /\ currentState = "REGISTERED"
    /\ sinceLastMessageReceived > 0
    /\ rx.msg.cameraId = CAMERA_ID
    /\ currentTallyState # rx.msg.state

\* ------------------------------------------------------- what the light takes
\* The last step was notifyCallback on a block of the right size, and the
\* camera the block names.
Processed == Received /\ rx.processed

RxCamera == DecodeMessage(rx.pData).cameraId

\* C21: notifyCallback on a block of the right size that fails verifyMessage
\* leaves currentTallyState, bridgeHasATEM and the ages of the last message and
\* the last heartbeat as they were, whatever the block's cameraId, state and
\* bridgeStatus.
C21_MismatchDropped ==
    [][(air # <<>> /\ rx'.pData # <<>> /\ rx'.processed /\ ~rx'.verified) =>
          UNCHANGED <<currentTallyState, bridgeHasATEM, sinceLastMessageReceived,
                      sinceLastHeartbeatReceived>>]_vars

\* C21: a registered light whose last message is a tick old was handed a
\* block with a flipped bit in the bridge status, sent for its camera with
\* another state than it shows; the block failed verifyMessage.
C21_Witness ==
    /\ Processed
    /\ ~rx.verified
    /\ rx.fault.kind = "flip"
    /\ rx.fault.bit \div 8 = OffsetBridgeStatus
    /\ currentState = "REGISTERED"
    /\ sinceLastMessageReceived > 0
    /\ rx.msg.cameraId = CAMERA_ID
    /\ currentTallyState # rx.msg.state
    /\ bridgeHasATEM

WellFormed(text) ==
    \E c \in Cameras :
        LET head == RegMessage(c, <<>>)
        IN  startsWith(text, head) /\ Len(text) > Len(head)

\* C22 (as stated): a write that is no well-formed registration changes no
\* slot and sends nothing.
C22_MalformedIgnored ==
    [][(ev'.op = "onWrite" /\ ~WellFormed(ev'.arg)) =>
          (tallyDevices' = tallyDevices /\ sent' = <<>>)]_vars

\* C29 (as stated): every slot's cameraId is in 0..MAX_CAMERAS, and a
\* registered slot's is in 1..MAX_CAMERAS.
C29_CameraIdInRange ==
    \A i \in Slots :
        /\ tallyDevices[i].cameraId \in 0 .. MAX_CAMERAS
        /\ tallyDevices[i].registered => tallyDevices[i].cameraId \in 1 .. MAX_CAMERAS

\* ------------------------------------------------- the light's reconnection
\* loop() stands at `if (doScan)` with a scan asked for: startBLEScan is its
\* next call.
ScanStarting == pc = "scan" /\ doScan

\* C24: from every state of the light in which it is not connected (after a
\* failed connection, after a scan that found nothing, at the cap of
\* attempts), it comes to start a scan again, or is connected.
C24_ScansAgain == ~connected ~> (connected \/ ScanStarting)

\* C24: at the cap of attempts, every scan so far having found nothing, the
\* light is about to scan once more.
C24_Witness ==
    /\ ScanStarting
    /\ ~connected
    /\ currentState = "SCANNING"
    /\ reconnectAttempts = MAX_RECONNECT_ATTEMPTS
    /\ sinceLastConnectionAttempt = 0

\* A step of loop() that is a call of handleConnection, the light neither
\* connected nor about to connect or scan, and handleConnection asking for a
\* scan.
HandleStep == pc = "handle" /\ pc' # "handle"

Idle == ~connected /\ ~doConnect /\ ~doScan

TimerScan == HandleStep /\ ~doScan /\ doScan'

\* A step of loop() that is a scan which does not find the bridge.
ScanFoundNothing == ScanStarting /\ pc' = "handle" /\ ~doConnect'

\* C25 (as stated): a scan that ends without the bridge found leaves the
\* connection state DISCONNECTED.
C25_EndsDisconnected == [][ScanFoundNothing => currentState' = "DISCONNECTED"]_vars

\* C25 (amended): a scan that ends without the bridge found leaves the
\* connection state SCANNING and no scan asked for; the state stays SCANNING
\* while the light waits, and the call of handleConnection that finds more
\* than RECONNECT_INTERVAL passed, below the cap of attempts, asks for the
\* next scan.
C25_StaysScanning ==
    [][/\ ScanFoundNothing => (currentState' = "SCANNING" /\ ~doScan')
       /\ (HandleStep /\ Idle /\ currentState = "SCANNING") =>
              /\ currentState' = "SCANNING"
              /\ (/\ sinceLastConnectionAttempt > RECONNECT_INTERVAL
                  /\ reconnectAttempts < MAX_RECONNECT_ATTEMPTS) => doScan']_vars

\* C25: a scan asked for by the timer has found nothing; the light waits.
C25_Witness ==
    /\ pc = "handle"
    /\ Idle
    /\ currentState = "SCANNING"
    /\ reconnectAttempts > 0
    /\ sinceLastConnectionAttempt = 0

\* The transport reports the connection closed (MyClientCallback::onDisconnect
\* runs).
DisconnectEvent == clientLink = "closing" /\ clientLink' = "closed"

\* C26: onDisconnect leaves the state DISCONNECTED, connected and registered
\* false and a scan asked for; and a scan asked for is taken only by loop() at
\* `if (doScan)`, which starts it.
C26_DisconnectRescans ==
    [][/\ DisconnectEvent =>
              (currentState' = "DISCONNECTED" /\ ~connected' /\ ~registered' /\ doScan')
       /\ (doScan /\ ~doScan') =>
              (ScanStarting /\ pc' = "handle" /\ currentState' \in {"SCANNING", "CONNECTING"})
      ]_vars

\* C26: the light that had registered and shows a state it was sent has just
\* been told of the disconnect.
C26_Witness ==
    /\ clientLink = "closed"
    /\ currentState = "DISCONNECTED"
    /\ ~connected /\ ~registered /\ doScan
    /\ sinceLastConnectionAttempt = 0
    /\ sinceLastRegistrationAttempt > 0
    /\ currentTallyState # "OFF"

C28_RegistrationRetried ==
    [][(/\ HandleStep
        /\ connected
        /\ clientLink = "open"
        /\ ~MessageTimedOut(sinceLastMessageReceived)
        /\ sinceLastRegistrationAttempt > REGISTRATION_RETRY_INTERVAL) =>
          sinceLastRegistrationAttempt' = 0]_vars

\* C30 (as stated): on every entry into REGISTERED, lastHeartbeatReceived is
\* the time of the entry.
C30_HeartbeatTimerReset ==
    [][(currentState # "REGISTERED" /\ currentState' = "REGISTERED") =>
          sinceLastHeartbeatReceived' = 0]_vars

\* ------------------------------------------------------ the light's own state
\* C38: currentTallyState changes only in notifyCallback on a block that
\* passes verifyMessage and names CAMERA_ID, and after every such block it is
\* the block's state; heartbeats, blocks for other cameras, blocks that fail,
\* and every step of loop() and of the transport leave it as it was.
C38_TallyStateFrame ==
    [][/\ currentTallyState' # currentTallyState =>
              /\ air # <<>>
              /\ rx'.processed /\ rx'.verified
              /\ DecodeMessage(rx'.pData).cameraId = CAMERA_ID
       /\ (/\ air # <<>>
           /\ rx'.pData # <<>>
           /\ rx'.processed /\ rx'.verified
           /\ DecodeMessage(rx'.pData).cameraId = CAMERA_ID) =>
              currentTallyState' = DecodeMessage(rx'.pData).state]_vars

\* C38: a block for the light's camera, a timestamp bit flipped on the way,
\* has passed verifyMessage and its state is shown.
C38_Witness ==
    /\ Processed
    /\ rx.verified
    /\ rx.fault.kind = "flip"
    /\ RxCamera = CAMERA_ID
    /\ currentTallyState = "PROGRAM"
    /\ currentTallyState = DecodeMessage(rx.pData).state

\* loop() is inside connectToServer or registerWithBridge.
MidOperation == pc \in {"register", "delayC", "delayH"}

\* C32 (as stated): while loop() is inside connectToServer and
\* registerWithBridge, between the test of connected and the writes of
\* registered and REGISTERED, no onDisconnect and no notifyCallback runs.
C32_EventsWaitForLoop ==
    [][MidOperation => ~(DisconnectEvent \/ (air # <<>> /\ rx'.pData # <<>>))]_vars

\* C35 (as stated): currentState = REGISTERED only with connected and
\* registered.
C35_RegisteredIsConnected ==
    currentState = "REGISTERED" => (connected /\ registered)

\* handleConnection asks for the connection to be closed for want of messages.
TeardownRequest ==
    HandleStep /\ connected /\ sinceLastMessageReceived > MESSAGE_TIMEOUT

\* C36 (as stated, in the least it says): handleConnection does not ask for
\* the connection to be closed at the very time the registration of this
\* connection was written.
C36_NoTeardownAtOnce ==
    [][(TeardownRequest /\ clientLink = "open") => sinceLastRegistrationAttempt > 0]_vars

RegisteredPrefix ==
    \A i \in Slots : tallyDevices[i].registered =>
        \A j \in Slots : j < i => tallyDevices[j].registered

UniqueIdentities ==
    \A i, j \in Slots :
        (i # j /\ tallyDevices[i].registered /\ tallyDevices[j].registered) =>
            tallyDevices[i].deviceName # tallyDevices[j].deviceName

\* C34: before and after every step the registered slots are the first ones
\* of the table and hold different device names, and no step takes a slot's
\* registered flag back.
C34_RegistryShape ==
    [][/\ RegisteredPrefix /\ RegisteredPrefix'
       /\ UniqueIdentities /\ UniqueIdentities'
       /\ \A i \in Slots : tallyDevices[i].registered => tallyDevices'[i].registered]_vars

\* C34: with every slot registered, the device of the first slot has
\* registered again, for another camera, and is in the first slot still.
C34_Witness ==
    /\ ev.op = "onWrite"
    /\ \A i \in Slots : tallyDevices[i].registered
    /\ ParseRegistration[ev.arg].ok
    /\ ParseRegistration[ev.arg].deviceName = tallyDevices[0].deviceName
    /\ tallyDevices[0].cameraId = MAX_CAMERAS
    /\ tallyDevices[0].connected

\* ---------------------------------------------------- the count of attempts
\* C31: reconnectAttempts is in 0..MAX_RECONNECT_ATTEMPTS in every state,
\* whatever the order of the timer's retries, connections, disconnects and
\* the command CONNECT.
C31_AttemptsBounded == reconnectAttempts \in 0 .. MAX_RECONNECT_ATTEMPTS

\* C31: the command CONNECT has set the count to 0 and asked for a scan, right
\* after a scan of the timer that found nothing.
C31_Witness ==
    /\ pc = "connect"
    /\ ~connected /\ doScan
    /\ currentState = "SCANNING"
    /\ reconnectAttempts = 0
    /\ sinceLastConnectionAttempt = 0
    /\ sinceLastMessageReceived > MESSAGE_TIMEOUT

\* ------------------------------------------- the transport's task and loop()
\* C33 (as stated): while sendHeartbeatSignal goes through the table, no slot
\* changes.
C33_NoChangeUnderPass == [][passAt # NoPass => tallyDevices' = tallyDevices]_vars

\* C39: in every state, between any two statements of onWrite, a slot with
\* connected and registered set has its characteristic set.
C39_CharacteristicSet ==
    \A i \in Slots :
        (tallyDevices[i].connected /\ tallyDevices[i].registered) =>
            tallyDevices[i].characteristic

\* C39: sendHeartbeatSignal stands at the slot that onWrite is filling for the
\* first time; connected and characteristic are written, registered is not.
C39_Witness ==
    /\ passAt \in Slots
    /\ writing # NoWrite
    /\ writing.slot = passAt
    /\ WriteOrder[writing.at] = "registered"
    /\ tallyDevices[passAt].connected
    /\ tallyDevices[passAt].characteristic
    /\ ~tallyDevices[passAt].registered

\* ------------------------------------------------ the example's tally light
\* C40: a pass of loop() that finds the example light connected and its last
\* HEARTBEAT more than HEARTBEAT_TIMEOUT old sets connected false and closes
\* the connection, and nothing else takes connected back; connectToBridge is
\* called from loop() only when at least CONNECTION_RETRY_DELAY has passed
\* since lastConnectionAttempt and since the last call began; a connection
\* that succeeds sets lastHeartbeat to now; and of the notifications only
\* "HEARTBEAT:" sets lastHeartbeat.
C40_BasicHeartbeat ==
    [][/\ (basic'.last = "loop" /\ basic.connected
              /\ basic.sinceLastHeartbeat > BASIC_HEARTBEAT_TIMEOUT) =>
              (~basic'.connected /\ basic'.link = "closed")
       /\ (basic.connected /\ ~basic'.connected) =>
              (basic'.last = "loop"
                  /\ basic.sinceLastHeartbeat > BASIC_HEARTBEAT_TIMEOUT)
       /\ (basic'.last = "loop" /\ basic'.attempted) =>
              /\ ~basic.connected
              /\ basic.sinceLastConnectionAttempt >= CONNECTION_RETRY_DELAY
              /\ basic.sinceAttemptStart >= CONNECTION_RETRY_DELAY
       /\ (~basic.connected /\ basic'.connected) => basic'.sinceLastHeartbeat = 0
       /\ basic'.last = "notify" =>
              basic'.sinceLastHeartbeat =
                  IF startsWith(basic'.message, HEARTBEAT_PREFIX)
                  THEN 0 ELSE basic.sinceLastHeartbeat]_vars

\* C40: the example light had been connected and shown LIVE, has dropped the
\* connection, and its last pass of loop() has tried connectToBridge in vain.
C40_Witness ==
    /\ basic.last = "loop"
    /\ basic.attempted
    /\ ~basic.connected
    /\ basic.link = "closed"
    /\ basic.currentState = "LIVE"
    /\ basic.sinceLastHeartbeat > BASIC_HEARTBEAT_TIMEOUT

=============================================================================
